---------------------------- MODULE Spec2Model ----------------------------
(***************************************************************************)
(* A model of the transaction core of the chain:                           *)
(*   - l2-vm/src/parallel_execution.rs : the conflict-aware scheduler      *)
(*   - src/core/state.rs               : the account ledger (WorldState)   *)
(*   - src/core/block.rs               : Block and its gas budget          *)
(*   - src/core/mempool.rs             : the bounded transaction pool      *)
(*   - src/core/executor.rs            : the per-transaction pipeline      *)
(*   - src/consensus/producer.rs       : the block producer                *)
(*                                                                         *)
(* Each subsystem has its own specification (SpecSched, SpecLedger,        *)
(* SpecLedgerConc, SpecBlock, SpecPool, SpecProducer).  The variables of   *)
(* the subsystems a specification does not exercise stay at their idle     *)
(* values.                                                                 *)
(*                                                                         *)
(* u64 arithmetic is modelled modulo 2^WordBits.  Rust defines overflow    *)
(* of `+` and `+=` per build profile: with overflow checks (the debug      *)
(* profile) the operation panics, without them (the release profile) it    *)
(* wraps.  The profile is the variable overflow_checks, chosen once.       *)
(***************************************************************************)
EXTENDS Integers, Sequences, FiniteSets, TLC

VARIABLES
    \* ---- build profile (shared)
    overflow_checks,   \* TRUE: arithmetic overflow panics; FALSE: it wraps
    \* ---- ParallelExecutionEngine::group_independent_txs
    sched_txs,         \* the batch handed to the scheduler
    sched_groups,      \* the groups it returned
    sched_pc,          \* "ready" | "done"
    sched_leftover,    \* what `remaining` held when the grouping loop ended
    dependency_graph,  \* ConflictDetector: hash -> the hashes recorded against it
    conflicts_detected, \* ConflictDetector: the running conflict counter
    \* ---- WorldState
    accounts,          \* HashMap<String, Account>: address -> [balance, nonce]
    ledger_ret,        \* what the last WorldState call returned
    ledger_creates,    \* create_account calls made so far
    \* ---- WorldState under concurrent tasks
    rw_writer,         \* the task holding the write guard of accounts, or 0
    rw_readers,        \* the tasks holding a read guard of accounts
    task_pc,           \* each task's position
    task_call,         \* each task's current call
    task_ret,          \* each task's last returned value
    torn_read,         \* a read has observed a debited-but-not-credited ledger
    \* ---- Block
    block,             \* the block under construction
    block_ret,         \* what the last Block call returned
    \* ---- Mempool
    pending,           \* VecDeque<Transaction>
    by_hash,           \* HashMap<String, Transaction>
    max_size,          \* the pool's capacity
    pool_ret,          \* what the last Mempool call returned
    pool_out,          \* the batch returned by the last get_transactions
    accepted,          \* history: the transactions add_transaction accepted, in order
    taken,             \* history: the batches get_transactions returned, concatenated
    \* ---- TransactionExecutor
    exec_ret,          \* the last executor call, the ledger it met and what it returned
    \* ---- BlockProducer
    current_block,     \* the block-number counter
    last_hash,         \* the chain tip hash
    producer_alive,    \* FALSE once produce_block has panicked
    chain,             \* history: the blocks produce_block has produced
    cycle,             \* history: the last production cycle (batch, receipts)
    executed_batches,  \* history: the pulled transactions execute_batch got through
    \* ---- ParallelExecutionEngine::execute_parallel and its worker threads
    threads,           \* the engine's thread count
    engine_pc,         \* the calling thread's position in execute_parallel
    group_id,          \* groups of the batch the for loop has entered
    chunk_size,        \* execute_group: the chunk size of the current group
    workers,           \* every thread spawned so far: its chunk and position
    handles,           \* execute_group: the handles pushed for the current group
    joined,            \* execute_group: handles joined so far
    executed_txs,      \* Arc<Mutex<Vec<Transaction>>>
    executed_count,    \* execute_group: Arc<Mutex<usize>>
    account_locks,     \* Arc<Mutex<HashMap<String, bool>>>: the keys present
    total_executed,    \* execute_parallel: the running total
    engine_ret,        \* what execute_parallel returned
    \* ---- Transaction::new
    built,             \* the transactions Transaction::new has returned
    \* ---- Mempool under concurrent callers
    lock_writer,       \* per RwLock (pending, by_hash): the caller holding its write guard, or 0
    lock_readers,      \* per RwLock: the callers holding a read guard
    caller_pc,         \* each caller's position: "idle" | "locking" | "locked" | "done"
    caller_call,       \* each caller's call
    caller_held,       \* each caller's guards, in the order it acquired them
    caller_ret         \* what each caller's call returned

schedVars == <<sched_txs, sched_groups, sched_pc, sched_leftover, dependency_graph,
              conflicts_detected>>
ledgerVars == <<accounts, ledger_ret, ledger_creates>>
concVars == <<rw_writer, rw_readers, task_pc, task_call, task_ret, torn_read>>
blockVars == <<block, block_ret>>
poolVars == <<pending, by_hash, max_size, pool_ret, pool_out, accepted, taken>>
execVars == <<exec_ret>>
producerVars == <<current_block, last_hash, producer_alive, chain, cycle, executed_batches>>
engineVars == <<threads, engine_pc, group_id, chunk_size, workers, handles, joined,
               executed_txs, executed_count, account_locks, total_executed, engine_ret>>
txVars == <<built>>
poolConcVars == <<lock_writer, lock_readers, caller_pc, caller_call, caller_held,
                 caller_ret>>
vars == <<overflow_checks, schedVars, ledgerVars, concVars, blockVars, poolVars,
          execVars, producerVars, engineVars, txVars, poolConcVars>>

(***************************************************************************)
(* Bounds of the model.                                                    *)
(***************************************************************************)
\* u64 is modelled with this many bits
WordBits == 26
\* longest batch handed to the scheduler
MaxBatch == 3
\* a sender's nonce is followed up to this value
MaxNonce == 2
\* create_account calls followed in one run of the ledger
MaxCreates == 2
\* concurrent callers of one WorldState
NumTasks == 2
\* transactions a block under construction is followed up to
MaxBlockTxs == 3
\* largest capacity a pool is built with
MaxPoolSize == 2
\* ticks of the block producer followed in one run
MaxTicks == 3
\* add_transaction calls are followed until this many transactions were accepted
MaxAccepted == 4
\* longest batch handed to execute_batch
MaxExecBatch == 3

U64Modulus == 2 ^ WordBits
U64Max == U64Modulus - 1

\* Sum of f over a finite set
RECURSIVE SumOver(_, _)
SumOver(S, f) ==
    IF S = {} THEN 0
    ELSE LET x == CHOOSE y \in S : TRUE
         IN f[x] + SumOver(S \ {x}, f)

\* Vec::remove(i): the sequence without its i-th element (1-based here)
RemoveAt(s, i) == SubSeq(s, 1, i - 1) \o SubSeq(s, i + 1, Len(s))

(***************************************************************************)
(* l2-vm: ParallelExecutionEngine::group_independent_txs                   *)
(*                                                                         *)
(* A transaction carries its hash and the accounts it reads and writes.    *)
(* The scheduler only tests membership of the Vec<String> reads / writes,  *)
(* so they are kept as sets.                                               *)
(***************************************************************************)
AccountKeys == {"alice", "bob"}

\* The (reads, writes) declarations a transaction can carry
Declarations == [reads : SUBSET AccountKeys, writes : SUBSET AccountKeys]

\* Batches: the i-th transaction has hash i
Batches ==
    UNION { { [i \in 1..n |-> [hash |-> i, reads |-> d[i].reads, writes |-> d[i].writes]]
              : d \in [1..n -> Declarations] } : n \in 0..MaxBatch }

\* tx.reads.iter().chain(tx.writes.iter())
TouchedAccounts(tx) == tx.reads \cup tx.writes

\* A slip has_conflict could have: only the writes of tx are looked up
HasConflictWritesOnly(tx, used_accounts) ==
    \E account \in tx.writes : account \in used_accounts

\* A slip has_conflict could have: the flag starts as true
HasConflictAlways(tx, used_accounts) == TRUE

\* A slip the grouping could have: no transaction is ever held back
HasConflictNever(tx, used_accounts) == FALSE

\* lines 170-177: has_conflict
HasConflictWithGroup(tx, used_accounts) ==
    \E account \in TouchedAccounts(tx) : account \in used_accounts

\* lines 184-186: mark the accounts of tx as used (a plausible slip: only the writes)
MarkUsedWritesOnly(used_accounts, tx) == used_accounts \cup tx.writes
MarkUsed(used_accounts, tx) == used_accounts \cup TouchedAccounts(tx)

\* line 188: remaining.remove(i) (a plausible slip: pop the last element)
TakeOutLast(remaining, i) == SubSeq(remaining, 1, Len(remaining) - 1)
TakeOut(remaining, i) == RemoveAt(remaining, i)

\* lines 165-192: one pass of the inner while loop, from index i on
RECURSIVE ScanPass(_, _, _, _)
ScanPass(remaining, i, independent_group, used_accounts) ==
    IF i > Len(remaining)
    THEN [group |-> independent_group, remaining |-> remaining]
    ELSE LET tx == remaining[i]
         IN IF ~HasConflictWithGroup(tx, used_accounts)
            THEN ScanPass(TakeOut(remaining, i), i,
                          Append(independent_group, tx),
                          MarkUsed(used_accounts, tx))
            ELSE ScanPass(remaining, i + 1, independent_group, used_accounts)

\* lines 161-200: the outer while loop, with its defensive break
RECURSIVE GroupLoop(_, _)
GroupLoop(remaining, groups) ==
    IF remaining = <<>>
    THEN [groups |-> groups, remaining |-> remaining]
    ELSE LET pass == ScanPass(remaining, 1, <<>>, {})
         IN IF pass.group # <<>>
            THEN GroupLoop(pass.remaining, Append(groups, pass.group))
            ELSE [groups |-> groups, remaining |-> pass.remaining]

\* lines 157-210
group_independent_txs(txs) ==
    LET r == GroupLoop(txs, <<>>)
    IN r.groups \o [k \in 1..Len(r.remaining) |-> <<r.remaining[k]>>]

\* A slip detect_conflict could have: the write-read loop is missing
detect_conflict_without_write_read(tx1, tx2) ==
    \/ \E write1 \in tx1.writes : write1 \in tx2.writes
    \/ \E read1 \in tx1.reads : read1 \in tx2.writes

\* detect_conflict, lines 128-154: its answer (each true answer also bumps
\* conflicts_detected)
detect_conflict(tx1, tx2) ==
    \/ \E write1 \in tx1.writes : write1 \in tx2.writes
    \/ \E read1 \in tx1.reads : read1 \in tx2.writes
    \/ \E write1 \in tx1.writes : write1 \in tx2.reads

\* ConflictDetector::add_dependency, lines 321-326
add_dependency(graph, tx1, tx2) ==
    IF tx1 \in DOMAIN graph
    THEN [graph EXCEPT ![tx1] = Append(@, tx2)]
    ELSE [h \in DOMAIN graph \cup {tx1} |-> IF h = tx1 THEN <<tx2>> ELSE graph[h]]

\* A slip analyze_dependencies could have: the inner loop only visits the
\* transactions after tx
RECURSIVE AnalyzeFromLaterOnly(_, _, _, _)
AnalyzeFromLaterOnly(txs, p, graph, conflicts) ==
    IF p > Len(txs) * Len(txs)
    THEN [dependency_graph |-> graph, conflicts_detected |-> conflicts]
    ELSE LET tx == txs[((p - 1) \div Len(txs)) + 1]
             other_tx == txs[((p - 1) % Len(txs)) + 1]
         IN IF ((p - 1) % Len(txs)) <= ((p - 1) \div Len(txs))
            THEN AnalyzeFromLaterOnly(txs, p + 1, graph, conflicts)
            ELSE IF detect_conflict(tx, other_tx)
            THEN AnalyzeFromLaterOnly(txs, p + 1,
                                      add_dependency(graph, tx.hash, other_tx.hash),
                                      (conflicts + 1) % U64Modulus)
            ELSE AnalyzeFromLaterOnly(txs, p + 1, graph, conflicts)

\* analyze_dependencies, lines 104-125: the two nested loops over txs, as the
\* p-th pair (tx, other_tx) in loop order
RECURSIVE AnalyzeFrom(_, _, _, _)
AnalyzeFrom(txs, p, graph, conflicts) ==
    IF p > Len(txs) * Len(txs)
    THEN [dependency_graph |-> graph, conflicts_detected |-> conflicts]
    ELSE LET tx == txs[((p - 1) \div Len(txs)) + 1]
             other_tx == txs[((p - 1) % Len(txs)) + 1]
         IN IF tx.hash = other_tx.hash
            THEN AnalyzeFrom(txs, p + 1, graph, conflicts)
            ELSE IF detect_conflict(tx, other_tx)
            THEN AnalyzeFrom(txs, p + 1, add_dependency(graph, tx.hash, other_tx.hash),
                             (conflicts + 1) % U64Modulus)
            ELSE AnalyzeFrom(txs, p + 1, graph, conflicts)

analyze_dependencies(txs, graph, conflicts) == AnalyzeFrom(txs, 1, graph, conflicts)

SchedIdle ==
    /\ sched_txs = <<>>
    /\ sched_groups = <<>>
    /\ sched_pc = "idle"
    /\ sched_leftover = <<>>
    /\ dependency_graph = <<>>
    /\ conflicts_detected = 0

\* ParallelExecutionEngine::new, lines 41-50, and a batch to prepare
SchedInit ==
    /\ sched_txs \in Batches
    /\ sched_groups = <<>>
    /\ sched_pc = "ready"
    /\ sched_leftover = <<>>
    /\ dependency_graph = <<>>
    /\ conflicts_detected = 0

\* prepare_execution_batch, lines 89-101: the dependencies are analyzed, then
\* the scheduler is applied to the batch
Schedule ==
    /\ sched_pc = "ready"
    /\ LET analysis == analyze_dependencies(sched_txs, dependency_graph,
                                            conflicts_detected)
       IN /\ dependency_graph' = analysis.dependency_graph
          /\ conflicts_detected' = analysis.conflicts_detected
    /\ sched_groups' = group_independent_txs(sched_txs)
    /\ sched_leftover' = GroupLoop(sched_txs, <<>>).remaining
    /\ sched_pc' = "done"
    /\ UNCHANGED <<sched_txs, overflow_checks, ledgerVars, concVars, blockVars,
                   poolVars, execVars, producerVars, engineVars, txVars, poolConcVars>>


(***************************************************************************)
(* core/state.rs: WorldState                                               *)
(*                                                                         *)
(* An Account is kept as its balance and nonce; its address is its key in  *)
(* the map, and code and storage are never touched by WorldState.          *)
(***************************************************************************)
Addresses == {"alice", "bob", "carol"}

\* balances create_account is called with, and amounts transfer is called with
GenesisBalances == {0, 1, U64Max}
Amounts == {0, 1, U64Max}

EmptyMap == [k \in {} |-> 0]

\* HashMap::insert
MapInsert(m, k, v) == [x \in DOMAIN m \cup {k} |-> IF x = k THEN v ELSE m[x]]

\* Account::new, lines 15-23
AccountNew(balance) == [balance |-> balance, nonce |-> 0]

\* The values WorldState calls return
RetNone == [kind |-> "none", msg |-> "", value |-> 0]
RetUnit == [kind |-> "unit", msg |-> "", value |-> 0]
RetOk == [kind |-> "Ok", msg |-> "", value |-> 0]
RetErr(msg) == [kind |-> "Err", msg |-> msg, value |-> 0]
RetSome(v) == [kind |-> "Some", msg |-> "", value |-> v]
RetAbsent == [kind |-> "None", msg |-> "", value |-> 0]
RetValue(v) == [kind |-> "value", msg |-> "", value |-> v]
RetPanic == [kind |-> "panic", msg |-> "attempt to add with overflow", value |-> 0]

ErrFromNotFound == RetErr("From account not found")
ErrInsufficient == RetErr("Insufficient balance")

\* lines 56-59: the sender is debited and its nonce incremented
\* (the nonce stays below MaxNonce by the callers' guards, far from 2^WordBits)
Debit(accts, from, amount) ==
    [accts EXCEPT ![from] = [balance |-> @.balance - amount, nonce |-> @.nonce + 1]]

\* lines 62-64: the recipient is credited, or created with the amount.
\* `acc.balance += amount` overflows when the sum exceeds u64::MAX: it panics
\* under overflow checks and wraps without them.
CreditOverflows(accts, to, amount) ==
    /\ to \in DOMAIN accts
    /\ accts[to].balance + amount > U64Max

Credit(accts, to, amount) ==
    IF to \in DOMAIN accts
    THEN [accts EXCEPT ![to].balance = (@ + amount) % U64Modulus]
    ELSE MapInsert(accts, to, AccountNew(amount))

\* A slip transfer could have: the recipient's entry is made before the checks
transfer_entry_first(accts, from, to, amount, checks) ==
    LET touched == IF to \in DOMAIN accts THEN accts
                   ELSE MapInsert(accts, to, AccountNew(0))
    IN IF from \notin DOMAIN accts
       THEN [accounts |-> touched, ret |-> ErrFromNotFound]
       ELSE IF accts[from].balance < amount
       THEN [accounts |-> touched, ret |-> ErrInsufficient]
       ELSE [accounts |-> Credit(Debit(accts, from, amount), to, amount), ret |-> RetOk]

\* WorldState::transfer, lines 47-67: the ledger and the result it leaves
transfer(accts, from, to, amount, checks) ==
    IF from \notin DOMAIN accts
    THEN [accounts |-> accts, ret |-> ErrFromNotFound]
    ELSE IF accts[from].balance < amount
    THEN [accounts |-> accts, ret |-> ErrInsufficient]
    ELSE LET debited == Debit(accts, from, amount)
         IN IF checks /\ CreditOverflows(debited, to, amount)
            THEN [accounts |-> debited, ret |-> RetPanic]
            ELSE [accounts |-> Credit(debited, to, amount), ret |-> RetOk]

\* WorldState::get_balance, lines 42-45
get_balance(accts, address) ==
    IF address \in DOMAIN accts THEN RetSome(accts[address].balance) ELSE RetAbsent

\* WorldState::get_nonce, lines 69-72
get_nonce(accts, address) ==
    IF address \in DOMAIN accts THEN RetValue(accts[address].nonce) ELSE RetValue(0)

\* The sum of the balances of all accounts
TotalBalance(accts) ==
    SumOver(DOMAIN accts, [a \in DOMAIN accts |-> accts[a].balance])

\* What a WorldState call leaves alone
LedgerFrame ==
    UNCHANGED <<overflow_checks, schedVars, concVars, blockVars, poolVars, execVars,
                producerVars, engineVars, txVars, poolConcVars>>

LedgerIdle ==
    /\ accounts = EmptyMap
    /\ ledger_ret = RetNone
    /\ ledger_creates = 0

\* WorldState::new, lines 31-35
LedgerInit ==
    /\ accounts = EmptyMap
    /\ ledger_ret = RetNone
    /\ ledger_creates = 0

\* WorldState::create_account, lines 37-40
CreateAccount(address, balance) ==
    /\ ledger_creates < MaxCreates
    /\ accounts' = MapInsert(accounts, address, AccountNew(balance))
    /\ ledger_ret' = RetUnit
    /\ ledger_creates' = ledger_creates + 1
    /\ LedgerFrame

\* A transfer is followed while the sender's nonce is below MaxNonce
NonceInBound(accts, from) ==
    from \in DOMAIN accts => accts[from].nonce < MaxNonce

\* WorldState::transfer, lines 47-67, as one call
Transfer(from, to, amount) ==
    /\ NonceInBound(accounts, from)
    /\ LET r == transfer(accounts, from, to, amount, overflow_checks)
       IN /\ accounts' = r.accounts
          /\ ledger_ret' = r.ret
    /\ UNCHANGED ledger_creates
    /\ LedgerFrame

LedgerNext ==
    \/ \E address \in Addresses, balance \in GenesisBalances :
           CreateAccount(address, balance)
    \/ \E from \in Addresses, to \in Addresses, amount \in Amounts :
           Transfer(from, to, amount)

(***************************************************************************)
(* core/state.rs: WorldState called by concurrent tasks.                   *)
(*                                                                         *)
(* accounts sits in a tokio RwLock: write().await is granted when no guard *)
(* is held, read().await when no write guard is held.  A guard is released *)
(* when it is dropped: at the return, or while a panic unwinds (a tokio    *)
(* RwLock is not poisoned, the other tasks go on using the ledger).        *)
(***************************************************************************)
Tasks == 1..NumTasks

ConcAddresses == {"alice", "bob"}
ConcAmounts == {1}
ConcBalances == {1, U64Max}

Call(op, from, to, amount) == [op |-> op, from |-> from, to |-> to, amount |-> amount]
NoCall == Call("none", "", "", 0)

ConcCalls ==
    { Call("transfer", from, to, amount) :
          from \in ConcAddresses, to \in ConcAddresses, amount \in ConcAmounts }
    \cup { Call(op, address, "", 0) :
          op \in {"get_balance", "get_nonce"}, address \in ConcAddresses }

\* What a step of a task leaves alone
ConcFrame ==
    UNCHANGED <<overflow_checks, schedVars, ledger_ret, ledger_creates, blockVars,
                poolVars, execVars, producerVars, engineVars, txVars, poolConcVars>>

\* A transfer of address's account has debited its sender and not credited its
\* recipient: it is between lines 59 and 62, or it panicked there
HalfApplied(address) ==
    \E t \in Tasks :
        /\ task_pc[t] \in {"t_credit", "panicked"}
        /\ address \in {task_call[t].from, task_call[t].to}

\* A ledger of genesis accounts, and tasks that have called nothing yet
ConcInit ==
    /\ accounts \in [ConcAddresses -> {AccountNew(b) : b \in ConcBalances}]
    /\ rw_writer = 0
    /\ rw_readers = {}
    /\ task_pc = [t \in Tasks |-> "idle"]
    /\ task_call = [t \in Tasks |-> NoCall]
    /\ task_ret = [t \in Tasks |-> RetNone]
    /\ torn_read = FALSE

\* A task calls transfer, get_balance or get_nonce and waits for the lock
\* (lines 48, 43, 70: the .await of write() / read())
StartCall(t, call) ==
    /\ task_pc[t] = "idle"
    /\ call.op = "transfer" => NonceInBound(accounts, call.from)
    /\ task_call' = [task_call EXCEPT ![t] = call]
    /\ task_pc' = [task_pc EXCEPT ![t] = IF call.op = "transfer" THEN "t_wait" ELSE "r_wait"]
    /\ UNCHANGED <<accounts, rw_writer, rw_readers, task_ret, torn_read>>
    /\ ConcFrame

\* line 48: the write guard is granted
AcquireWrite(t) ==
    /\ task_pc[t] = "t_wait"
    /\ rw_writer = 0
    /\ rw_readers = {}
    /\ rw_writer' = t
    /\ task_pc' = [task_pc EXCEPT ![t] = "t_check"]
    /\ UNCHANGED <<accounts, rw_readers, task_call, task_ret, torn_read>>
    /\ ConcFrame

\* lines 50-53: the two checks; a failing one returns and drops the guard
TransferCheck(t) ==
    /\ task_pc[t] = "t_check"
    /\ LET c == task_call[t]
           failed == c.from \notin DOMAIN accounts \/ accounts[c.from].balance < c.amount
       IN /\ task_pc' = [task_pc EXCEPT ![t] = IF failed THEN "returned" ELSE "t_debit"]
          /\ rw_writer' = IF failed THEN 0 ELSE rw_writer
          /\ task_ret' = [task_ret EXCEPT ![t] =
                 IF c.from \notin DOMAIN accounts THEN ErrFromNotFound
                 ELSE IF failed THEN ErrInsufficient ELSE @]
    /\ UNCHANGED <<accounts, rw_readers, task_call, torn_read>>
    /\ ConcFrame

\* lines 56-59: the sender is debited
TransferDebit(t) ==
    /\ task_pc[t] = "t_debit"
    /\ accounts' = Debit(accounts, task_call[t].from, task_call[t].amount)
    /\ task_pc' = [task_pc EXCEPT ![t] = "t_credit"]
    /\ UNCHANGED <<rw_writer, rw_readers, task_call, task_ret, torn_read>>
    /\ ConcFrame

\* lines 62-64: the recipient is credited; under overflow checks an overflowing
\* `+=` panics, the unwinding drops the guard and the task ends
TransferCredit(t) ==
    /\ task_pc[t] = "t_credit"
    /\ LET c == task_call[t]
           panics == overflow_checks /\ CreditOverflows(accounts, c.to, c.amount)
       IN /\ accounts' = IF panics THEN accounts ELSE Credit(accounts, c.to, c.amount)
          /\ task_pc' = [task_pc EXCEPT ![t] = IF panics THEN "panicked" ELSE "t_return"]
          /\ rw_writer' = IF panics THEN 0 ELSE rw_writer
          /\ task_ret' = [task_ret EXCEPT ![t] = IF panics THEN RetPanic ELSE @]
    /\ UNCHANGED <<rw_readers, task_call, torn_read>>
    /\ ConcFrame

\* lines 66-67: Ok(()) is returned and the guard dropped
TransferReturn(t) ==
    /\ task_pc[t] = "t_return"
    /\ rw_writer' = 0
    /\ task_pc' = [task_pc EXCEPT ![t] = "returned"]
    /\ task_ret' = [task_ret EXCEPT ![t] = RetOk]
    /\ UNCHANGED <<accounts, rw_readers, task_call, torn_read>>
    /\ ConcFrame

\* lines 43 and 70: a read guard is granted
AcquireRead(t) ==
    /\ task_pc[t] = "r_wait"
    /\ rw_writer = 0
    /\ rw_readers' = rw_readers \cup {t}
    /\ task_pc' = [task_pc EXCEPT ![t] = "r_read"]
    /\ UNCHANGED <<accounts, rw_writer, task_call, task_ret, torn_read>>
    /\ ConcFrame

\* lines 44 and 71: the value is read and returned, the guard dropped
ReadValue(t) ==
    /\ task_pc[t] = "r_read"
    /\ LET c == task_call[t]
       IN /\ task_ret' = [task_ret EXCEPT ![t] =
                 IF c.op = "get_balance" THEN get_balance(accounts, c.from)
                 ELSE get_nonce(accounts, c.from)]
          /\ torn_read' = (torn_read \/ HalfApplied(c.from))
    /\ rw_readers' = rw_readers \ {t}
    /\ task_pc' = [task_pc EXCEPT ![t] = "returned"]
    /\ UNCHANGED <<accounts, rw_writer, task_call>>
    /\ ConcFrame

\* The caller takes the returned value and is free to call again
Resume(t) ==
    /\ task_pc[t] = "returned"
    /\ task_pc' = [task_pc EXCEPT ![t] = "idle"]
    /\ task_call' = [task_call EXCEPT ![t] = NoCall]
    /\ task_ret' = [task_ret EXCEPT ![t] = RetNone]
    /\ UNCHANGED <<accounts, rw_writer, rw_readers, torn_read>>
    /\ ConcFrame

ConcNext ==
    \/ \E t \in Tasks, call \in ConcCalls : StartCall(t, call)
    \/ \E t \in Tasks : AcquireWrite(t)
    \/ \E t \in Tasks : TransferCheck(t)
    \/ \E t \in Tasks : TransferDebit(t)
    \/ \E t \in Tasks : TransferCredit(t)
    \/ \E t \in Tasks : TransferReturn(t)
    \/ \E t \in Tasks : AcquireRead(t)
    \/ \E t \in Tasks : ReadValue(t)
    \/ \E t \in Tasks : Resume(t)

(***************************************************************************)
(* core/transaction.rs: Transaction                                        *)
(*                                                                         *)
(* Strings are TLA+ strings; format!("{}{}..") is concatenation of the     *)
(* fields' decimal texts.  SHA-256 is taken as collision-free: the digest  *)
(* of a text is the text in a wrapper, so equal digests mean equal texts.  *)
(***************************************************************************)
Sha256Hex(data) == "sha256(" \o data \o ")"

\* Transaction::calculate_hash, lines 34-39
TxCalculateHash(from, to, value, nonce) ==
    Sha256Hex(from \o to \o ToString(value) \o ToString(nonce))

\* Transaction::new, lines 18-32
TransactionNew(from, to, value, nonce) ==
    [from |-> from, to |-> to, value |-> value, gas_price |-> 1000000000,
     gas_limit |-> 21000, nonce |-> nonce, data |-> <<>>, signature |-> <<>>,
     hash |-> TxCalculateHash(from, to, value, nonce)]

\* gas_limit is a public field: a transaction can carry any u64
WithGasLimit(tx, gas_limit) == [tx EXCEPT !.gas_limit = gas_limit]

\* Transaction::verify, lines 41-44
TxVerify(tx) == tx.from # "" /\ tx.to # "" /\ tx.value > 0

\* Transaction::new calls followed in one run
MaxBuilt == 2

\* The arguments Transaction::new is called with
NewSenders == {"alice", "bob"}
NewRecipients == {"alice", "bob", "carol"}
NewValues == {1, 12}
NewNonces == {3, 23}

TxIdle == built = <<>>

TxInit == built = <<>>

\* Transaction::new, lines 18-32, as one call
NewTransaction(from, to, value, nonce) ==
    /\ Len(built) < MaxBuilt
    /\ built' = Append(built, TransactionNew(from, to, value, nonce))
    /\ UNCHANGED <<overflow_checks, schedVars, ledgerVars, concVars, blockVars, poolVars,
                   execVars, producerVars, engineVars, poolConcVars>>

TxNext ==
    \E from \in NewSenders, to \in NewRecipients, value \in NewValues, nonce \in NewNonces :
        NewTransaction(from, to, value, nonce)

(***************************************************************************)
(* core/block.rs: Block                                                    *)
(***************************************************************************)
\* line 29: gas_limit: 30_000_000
BlockGasLimit == 30000000

\* Utc::now().timestamp(): the clock readings a block can be stamped with
Clock == {1700000000, 1700000001}

Validator == "0xValidator"

\* Block::calculate_hash, lines 47-58
BlockCalculateHash(b) ==
    Sha256Hex(ToString(b.number) \o ToString(b.timestamp) \o b.parent_hash
              \o ToString(Len(b.transactions)))

\* Block::new, lines 20-34
BlockNew(number, parent_hash, validator, now) ==
    LET b == [number |-> number, timestamp |-> now, transactions |-> <<>>,
              parent_hash |-> parent_hash, hash |-> "", state_root |-> "0x0",
              gas_used |-> 0, gas_limit |-> BlockGasLimit, validator |-> validator]
    IN [b EXCEPT !.hash = BlockCalculateHash(b)]

\* A slip add_transaction could have: the hash is not recomputed after the push
add_transaction_stale_hash(b, tx, checks) ==
    IF (b.gas_used + tx.gas_limit) % U64Modulus <= b.gas_limit
    THEN [block |-> [b EXCEPT !.gas_used = (b.gas_used + tx.gas_limit) % U64Modulus,
                              !.transactions = Append(b.transactions, tx)],
          accepted |-> TRUE, panicked |-> FALSE]
    ELSE [block |-> b, accepted |-> FALSE, panicked |-> FALSE]

\* A slip add_transaction could have: the hash is recomputed before the push
add_transaction_hash_before_push(b, tx, checks) ==
    IF checks /\ b.gas_used + tx.gas_limit > U64Max
    THEN [block |-> b, accepted |-> FALSE, panicked |-> TRUE]
    ELSE IF (b.gas_used + tx.gas_limit) % U64Modulus <= b.gas_limit
    THEN [block |-> [b EXCEPT !.gas_used = (b.gas_used + tx.gas_limit) % U64Modulus,
                              !.hash = BlockCalculateHash(b),
                              !.transactions = Append(b.transactions, tx)],
          accepted |-> TRUE, panicked |-> FALSE]
    ELSE [block |-> b, accepted |-> FALSE, panicked |-> FALSE]

\* Block::add_transaction, lines 36-45.  `self.gas_used + tx.gas_limit` is a u64
\* addition: beyond u64::MAX it panics under overflow checks and wraps without.
block_add_transaction(b, tx, checks) ==
    IF checks /\ b.gas_used + tx.gas_limit > U64Max
    THEN [block |-> b, accepted |-> FALSE, panicked |-> TRUE]
    ELSE IF (b.gas_used + tx.gas_limit) % U64Modulus <= b.gas_limit
    THEN LET pushed == [b EXCEPT !.gas_used = (b.gas_used + tx.gas_limit) % U64Modulus,
                                 !.transactions = Append(b.transactions, tx)]
         IN [block |-> [pushed EXCEPT !.hash = BlockCalculateHash(pushed)],
             accepted |-> TRUE, panicked |-> FALSE]
    ELSE [block |-> b, accepted |-> FALSE, panicked |-> FALSE]

\* Block::verify, lines 60-62
BlockVerify(b) == b.hash = BlockCalculateHash(b)

\* The sum of gas_limit over a list of transactions
RECURSIVE SumGas(_)
SumGas(txs) == IF txs = <<>> THEN 0 ELSE txs[1].gas_limit + SumGas(Tail(txs))

\* gas limits the transactions offered to a block carry
BlockGasLimits == {0, 21000, BlockGasLimit, U64Max - 20999, U64Max}

BlockTxs ==
    { WithGasLimit(TransactionNew("alice", "bob", 1, nonce), g) :
          nonce \in {0, 1}, g \in BlockGasLimits }

BlockFrame ==
    UNCHANGED <<overflow_checks, schedVars, ledgerVars, concVars, poolVars, execVars,
                producerVars, engineVars, txVars, poolConcVars>>

\* Block::new(1, "0x0", validator)
BlockInit ==
    /\ \E now \in Clock : block = BlockNew(1, "0x0", Validator, now)
    /\ block_ret = RetNone

\* Block::add_transaction as one call; a panic unwinds the owner of the block
BlockAddTransaction(tx) ==
    /\ block_ret # RetPanic
    /\ Len(block.transactions) < MaxBlockTxs
    /\ LET r == block_add_transaction(block, tx, overflow_checks)
       IN /\ block' = r.block
          /\ block_ret' = IF r.panicked THEN RetPanic
                          ELSE IF r.accepted THEN RetValue(1) ELSE RetValue(0)
    /\ BlockFrame

BlockNext == \E tx \in BlockTxs : BlockAddTransaction(tx)

(***************************************************************************)
(* core/mempool.rs: Mempool                                                *)
(*                                                                         *)
(* add_transaction holds the write guards of pending and by_hash for its   *)
(* whole body, get_transactions that of pending, remove_transaction that   *)
(* of by_hash: each call is one step.                                      *)
(***************************************************************************)
ErrPoolFull == RetErr("Mempool full")
ErrDuplicate == RetErr("Transaction already exists")

\* line 51: get_transactions(1000)
BatchCap == 1000

PoolTxs ==
    { TransactionNew("alice", "bob", 1, 0), TransactionNew("bob", "alice", 1, 0),
      TransactionNew("alice", "bob", 1, 1) }

PoolFrame ==
    UNCHANGED <<overflow_checks, schedVars, ledgerVars, concVars, blockVars, execVars,
                producerVars, engineVars, txVars, poolConcVars>>

\* HashMap::remove
MapRemove(m, k) == [x \in DOMAIN m \ {k} |-> m[x]]

Min(a, b) == IF a <= b THEN a ELSE b

\* A slip add_transaction could have: `>` for `>=` in the capacity check
pool_is_full_off_by_one(queue, capacity) == Len(queue) > capacity

\* line 25: pending.len() >= self.max_size
pool_is_full(queue, capacity) == Len(queue) >= capacity

\* Mempool::new, lines 12-18
PoolInit ==
    /\ pending = <<>>
    /\ by_hash = EmptyMap
    /\ max_size \in 0..MaxPoolSize
    /\ pool_ret = RetNone
    /\ pool_out = <<>>
    /\ accepted = <<>>
    /\ taken = <<>>

\* A slip add_transaction could have: the duplicate is looked for in the queue
add_transaction_pending_only(queue, index, capacity, tx) ==
    IF pool_is_full(queue, capacity)
    THEN [pending |-> queue, by_hash |-> index, ret |-> ErrPoolFull]
    ELSE IF \E i \in 1..Len(queue) : queue[i].hash = tx.hash
    THEN [pending |-> queue, by_hash |-> index, ret |-> ErrDuplicate]
    ELSE [pending |-> Append(queue, tx), by_hash |-> MapInsert(index, tx.hash, tx),
          ret |-> RetOk]

\* A slip add_transaction could have: the capacity is counted on the index
add_transaction_capacity_by_index(queue, index, capacity, tx) ==
    IF Cardinality(DOMAIN index) >= capacity
    THEN [pending |-> queue, by_hash |-> index, ret |-> ErrPoolFull]
    ELSE IF tx.hash \in DOMAIN index
    THEN [pending |-> queue, by_hash |-> index, ret |-> ErrDuplicate]
    ELSE [pending |-> Append(queue, tx), by_hash |-> MapInsert(index, tx.hash, tx),
          ret |-> RetOk]

\* Mempool::add_transaction, lines 21-37: the pool it leaves and its result
add_transaction(queue, index, capacity, tx) ==
    IF pool_is_full(queue, capacity)
    THEN [pending |-> queue, by_hash |-> index, ret |-> ErrPoolFull]
    ELSE IF tx.hash \in DOMAIN index
    THEN [pending |-> queue, by_hash |-> index, ret |-> ErrDuplicate]
    ELSE [pending |-> Append(queue, tx), by_hash |-> MapInsert(index, tx.hash, tx),
          ret |-> RetOk]

\* A slip get_transactions could have: pop_back for pop_front
get_transactions_from_back(queue, count) ==
    LET n == Min(count, Len(queue))
    IN [result |-> [k \in 1..n |-> queue[Len(queue) + 1 - k]],
        pending |-> SubSeq(queue, 1, Len(queue) - n)]

\* Mempool::get_transactions, lines 39-50: the batch popped from the front
get_transactions(queue, count) ==
    LET n == Min(count, Len(queue))
    IN [result |-> SubSeq(queue, 1, n), pending |-> SubSeq(queue, n + 1, Len(queue))]

\* Mempool::add_transaction as one call; it is followed while fewer than
\* MaxAccepted transactions were accepted
AddTransaction(tx) ==
    /\ Len(accepted) < MaxAccepted
    /\ LET r == add_transaction(pending, by_hash, max_size, tx)
       IN /\ pending' = r.pending
          /\ by_hash' = r.by_hash
          /\ pool_ret' = r.ret
          /\ accepted' = IF r.ret = RetOk THEN Append(accepted, tx) ELSE accepted
    /\ UNCHANGED <<max_size, pool_out, taken>>
    /\ PoolFrame

GetTransactions(count) ==
    /\ LET r == get_transactions(pending, count)
       IN /\ pending' = r.pending
          /\ pool_out' = r.result
          /\ taken' = taken \o r.result
    /\ pool_ret' = RetUnit
    /\ UNCHANGED <<by_hash, max_size, accepted>>
    /\ PoolFrame

\* Mempool::size, lines 52-54
Size ==
    /\ pool_ret' = RetValue(Len(pending))
    /\ UNCHANGED <<pending, by_hash, max_size, pool_out, accepted, taken>>
    /\ PoolFrame

\* Mempool::remove_transaction, lines 56-59
RemoveTransaction(hash) ==
    /\ by_hash' = MapRemove(by_hash, hash)
    /\ pool_ret' = RetUnit
    /\ UNCHANGED <<pending, max_size, pool_out, accepted, taken>>
    /\ PoolFrame

PoolNext ==
    \/ \E tx \in PoolTxs : AddTransaction(tx)
    \/ \E count \in (0..MaxPoolSize) \cup {BatchCap} : GetTransactions(count)
    \/ Size
    \/ \E tx \in PoolTxs : RemoveTransaction(tx.hash)

(***************************************************************************)
(* core/mempool.rs: one Mempool called by concurrent tasks                 *)
(*                                                                         *)
(* pending and by_hash are two tokio RwLocks.  A call acquires its guards  *)
(* one await at a time, in the order its code names them, then runs its    *)
(* body without another await and drops the guards when it returns.        *)
(***************************************************************************)
\* concurrent callers of one Mempool
NumCallers == 3

Callers == 1..NumCallers

PoolLocks == {"pending", "by_hash"}

PoolCall(op, tx, count, hash) == [op |-> op, tx |-> tx, count |-> count, hash |-> hash]
NoPoolCall == PoolCall("none", TransactionNew("", "", 0, 0), 0, "")

\* The calls a caller can make
ConcPoolTxs == { TransactionNew("alice", "bob", 1, 0), TransactionNew("bob", "alice", 1, 0) }
PoolCalls ==
    { PoolCall("add_transaction", tx, 0, "") : tx \in ConcPoolTxs } \cup
    { PoolCall("get_transactions", NoPoolCall.tx, BatchCap, ""),
      PoolCall("size", NoPoolCall.tx, 0, ""),
      PoolCall("remove_transaction", NoPoolCall.tx, 0,
               TransactionNew("alice", "bob", 1, 0).hash) }

\* A slip remove_transaction could have: it also takes pending, after by_hash
LockPlanRemoveTakesBoth(op) ==
    CASE op = "add_transaction" -> << <<"pending", "write">>, <<"by_hash", "write">> >>
      [] op = "get_transactions" -> << <<"pending", "write">> >>
      [] op = "size" -> << <<"pending", "read">> >>
      [] op = "remove_transaction" -> << <<"by_hash", "write">>, <<"pending", "write">> >>

\* The guards each call acquires, in order: lines 22-23, 40, 53, 57
LockPlan(op) ==
    CASE op = "add_transaction" -> << <<"pending", "write">>, <<"by_hash", "write">> >>
      [] op = "get_transactions" -> << <<"pending", "write">> >>
      [] op = "size" -> << <<"pending", "read">> >>
      [] op = "remove_transaction" -> << <<"by_hash", "write">> >>

PoolConcIdle ==
    /\ lock_writer = <<>>
    /\ lock_readers = <<>>
    /\ caller_pc = <<>>
    /\ caller_call = <<>>
    /\ caller_held = <<>>
    /\ caller_ret = <<>>

\* Mempool::new, lines 13-19, shared by the callers
PoolConcInit ==
    /\ pending = <<>>
    /\ by_hash = EmptyMap
    /\ max_size \in {1, MaxPoolSize}
    /\ pool_ret = RetNone
    /\ pool_out = <<>>
    /\ accepted = <<>>
    /\ taken = <<>>
    /\ lock_writer = [l \in PoolLocks |-> 0]
    /\ lock_readers = [l \in PoolLocks |-> {}]
    /\ caller_pc = [t \in Callers |-> "idle"]
    /\ caller_call = [t \in Callers |-> NoPoolCall]
    /\ caller_held = [t \in Callers |-> <<>>]
    /\ caller_ret = [t \in Callers |-> RetNone]

PoolConcFrame ==
    UNCHANGED <<overflow_checks, schedVars, ledgerVars, concVars, blockVars, execVars,
                producerVars, engineVars, txVars>>

\* A task calls one of the Mempool methods
StartPoolCall(t, call) ==
    /\ caller_pc[t] = "idle"
    /\ caller_pc' = [caller_pc EXCEPT ![t] = "locking"]
    /\ caller_call' = [caller_call EXCEPT ![t] = call]
    /\ UNCHANGED <<poolVars, lock_writer, lock_readers, caller_held, caller_ret>>
    /\ PoolConcFrame

\* .write().await / .read().await: the next guard of the call is granted
AcquireGuard(t) ==
    /\ caller_pc[t] = "locking"
    /\ LET plan == LockPlan(caller_call[t].op)
           next == plan[Len(caller_held[t]) + 1]
           lock == next[1]
       IN /\ lock_writer[lock] = 0
          /\ IF next[2] = "write"
             THEN /\ lock_readers[lock] = {}
                  /\ lock_writer' = [lock_writer EXCEPT ![lock] = t]
                  /\ UNCHANGED lock_readers
             ELSE /\ lock_readers' = [lock_readers EXCEPT ![lock] = @ \cup {t}]
                  /\ UNCHANGED lock_writer
          /\ caller_held' = [caller_held EXCEPT ![t] = Append(@, lock)]
          /\ caller_pc' = [caller_pc EXCEPT
                             ![t] = IF Len(caller_held[t]) + 1 = Len(plan)
                                    THEN "locked" ELSE "locking"]
    /\ UNCHANGED <<poolVars, caller_call, caller_ret>>
    /\ PoolConcFrame

\* The guards of caller t are dropped
ReleasedWriter(t) == [l \in PoolLocks |-> IF lock_writer[l] = t THEN 0 ELSE lock_writer[l]]
ReleasedReaders(t) == [l \in PoolLocks |-> lock_readers[l] \ {t}]

\* The body of the call runs under its guards and returns, dropping them
RunPoolCall(t) ==
    /\ caller_pc[t] = "locked"
    /\ LET call == caller_call[t]
       IN CASE call.op = "add_transaction" ->
                 LET r == add_transaction(pending, by_hash, max_size, call.tx)
                 IN /\ pending' = r.pending
                    /\ by_hash' = r.by_hash
                    /\ caller_ret' = [caller_ret EXCEPT ![t] = r.ret]
                    /\ accepted' = IF r.ret = RetOk THEN Append(accepted, call.tx)
                                   ELSE accepted
                    /\ UNCHANGED <<pool_out, taken>>
            [] call.op = "get_transactions" ->
                 LET r == get_transactions(pending, call.count)
                 IN /\ pending' = r.pending
                    /\ pool_out' = r.result
                    /\ taken' = taken \o r.result
                    /\ caller_ret' = [caller_ret EXCEPT ![t] = RetUnit]
                    /\ UNCHANGED <<by_hash, accepted>>
            [] call.op = "size" ->
                 /\ caller_ret' = [caller_ret EXCEPT ![t] = RetValue(Len(pending))]
                 /\ UNCHANGED <<pending, by_hash, pool_out, accepted, taken>>
            [] call.op = "remove_transaction" ->
                 /\ by_hash' = MapRemove(by_hash, call.hash)
                 /\ caller_ret' = [caller_ret EXCEPT ![t] = RetUnit]
                 /\ UNCHANGED <<pending, pool_out, accepted, taken>>
    /\ lock_writer' = ReleasedWriter(t)
    /\ lock_readers' = ReleasedReaders(t)
    /\ caller_held' = [caller_held EXCEPT ![t] = <<>>]
    /\ caller_pc' = [caller_pc EXCEPT ![t] = "done"]
    /\ UNCHANGED <<max_size, pool_ret, caller_call>>
    /\ PoolConcFrame

PoolConcNext ==
    \/ \E t \in Callers, call \in PoolCalls : StartPoolCall(t, call)
    \/ \E t \in Callers : AcquireGuard(t)
    \/ \E t \in Callers : RunPoolCall(t)

(***************************************************************************)
(* core/executor.rs: TransactionExecutor                                   *)
(***************************************************************************)
Receipt(tx, block_number, gas_used, status, log) ==
    [tx_hash |-> tx.hash, block_number |-> block_number, gas_used |-> gas_used,
     status |-> status, logs |-> <<log>>]

\* A slip execute could have: the declared gas_limit is charged on failure too
execute_charges_limit_on_failure(accts, tx, block_number, checks) ==
    IF ~TxVerify(tx)
    THEN [accounts |-> accts, panicked |-> FALSE,
          receipt |-> Receipt(tx, block_number, 0, FALSE,
                              "Transaction verification failed")]
    ELSE LET r == transfer(accts, tx.from, tx.to, tx.value, checks)
         IN IF r.ret = RetPanic
            THEN [accounts |-> r.accounts, panicked |-> TRUE,
                  receipt |-> Receipt(tx, block_number, 0, FALSE, "")]
            ELSE [accounts |-> r.accounts, panicked |-> FALSE,
                  receipt |-> Receipt(tx, block_number, tx.gas_limit, r.ret = RetOk,
                                      r.ret.msg)]

\* TransactionExecutor::execute, lines 14-43: the ledger it leaves and the
\* receipt; a panic of transfer unwinds through it
execute(accts, tx, block_number, checks) ==
    IF ~TxVerify(tx)
    THEN [accounts |-> accts, panicked |-> FALSE,
          receipt |-> Receipt(tx, block_number, 0, FALSE,
                              "Transaction verification failed")]
    ELSE LET r == transfer(accts, tx.from, tx.to, tx.value, checks)
         IN IF r.ret = RetPanic
            THEN [accounts |-> r.accounts, panicked |-> TRUE,
                  receipt |-> Receipt(tx, block_number, 0, FALSE, "")]
            ELSE IF r.ret = RetOk
            THEN [accounts |-> r.accounts, panicked |-> FALSE,
                  receipt |-> Receipt(tx, block_number, tx.gas_limit, TRUE,
                      "Transferred " \o ToString(tx.value) \o " from " \o tx.from
                          \o " to " \o tx.to)]
            ELSE [accounts |-> r.accounts, panicked |-> FALSE,
                  receipt |-> Receipt(tx, block_number, 21000, FALSE,
                      "Execution failed: " \o r.ret.msg)]

\* A slip execute_batch could have: the loop ends at the first failed receipt
RECURSIVE ExecuteFromStopAtFailure(_, _, _, _, _, _)
ExecuteFromStopAtFailure(accts, transactions, i, block_number, receipts, checks) ==
    IF i > Len(transactions)
    THEN [accounts |-> accts, receipts |-> receipts, panicked |-> FALSE]
    ELSE LET r == execute(accts, transactions[i], block_number, checks)
         IN IF r.panicked
            THEN [accounts |-> r.accounts, receipts |-> receipts, panicked |-> TRUE]
            ELSE IF ~r.receipt.status
            THEN [accounts |-> r.accounts, receipts |-> Append(receipts, r.receipt),
                  panicked |-> FALSE]
            ELSE ExecuteFromStopAtFailure(r.accounts, transactions, i + 1,
                                          block_number, Append(receipts, r.receipt),
                                          checks)

\* TransactionExecutor::execute_batch, lines 45-54, from the i-th transaction on
RECURSIVE ExecuteFrom(_, _, _, _, _, _)
ExecuteFrom(accts, transactions, i, block_number, receipts, checks) ==
    IF i > Len(transactions)
    THEN [accounts |-> accts, receipts |-> receipts, panicked |-> FALSE]
    ELSE LET r == execute(accts, transactions[i], block_number, checks)
         IN IF r.panicked
            THEN [accounts |-> r.accounts, receipts |-> receipts, panicked |-> TRUE]
            ELSE ExecuteFrom(r.accounts, transactions, i + 1, block_number,
                             Append(receipts, r.receipt), checks)

execute_batch(accts, transactions, block_number, checks) ==
    ExecuteFrom(accts, transactions, 1, block_number, <<>>, checks)

\* No executor call made yet
NoExec ==
    [call |-> "none", transactions |-> <<>>, block_number |-> 0,
     before |-> EmptyMap, receipts |-> <<>>, panicked |-> FALSE]

\* The transactions handed to the executor: a covered and an uncovered
\* transfer, an unknown sender, a new recipient, and the three ways verify()
\* fails; all with a gas_limit other than the base gas
ExecTxs ==
    { WithGasLimit(TransactionNew(t[1], t[2], t[3], 0), 50000) :
          t \in { <<"alice", "bob", 1>>, <<"bob", "alice", 1>>, <<"carol", "alice", 1>>,
                  <<"alice", "carol", 1>>, <<"alice", "bob", 0>>, <<"", "bob", 1>>,
                  <<"alice", "", 1>> } }

\* Batches of up to MaxExecBatch of them
ExecBatches == UNION { [1..n -> ExecTxs] : n \in 0..MaxExecBatch }

ExecBlockNumbers == {1, 2}

\* The ledgers the executor is built over (TransactionExecutor::new, lines 10-12)
ExecLedgers ==
    { [a \in {"alice", "bob"} |-> AccountNew(IF a = "alice" THEN 1 ELSE b)] :
          b \in {0, U64Max} }

ExecInit ==
    /\ accounts \in ExecLedgers
    /\ ledger_ret = RetNone
    /\ ledger_creates = 0
    /\ exec_ret = NoExec

ExecFrame ==
    UNCHANGED <<overflow_checks, schedVars, ledger_ret, ledger_creates, concVars,
                blockVars, poolVars, producerVars, engineVars, txVars, poolConcVars>>

\* TransactionExecutor::execute as one call
Execute(tx, block_number) ==
    /\ exec_ret = NoExec
    /\ LET r == execute(accounts, tx, block_number, overflow_checks)
       IN /\ accounts' = r.accounts
          /\ exec_ret' = [call |-> "execute", transactions |-> <<tx>>,
                          block_number |-> block_number, before |-> accounts,
                          receipts |-> IF r.panicked THEN <<>> ELSE <<r.receipt>>,
                          panicked |-> r.panicked]
    /\ ExecFrame

\* TransactionExecutor::execute_batch as one call
ExecuteBatch(transactions, block_number) ==
    /\ exec_ret = NoExec
    /\ LET r == execute_batch(accounts, transactions, block_number, overflow_checks)
       IN /\ accounts' = r.accounts
          /\ exec_ret' = [call |-> "execute_batch", transactions |-> transactions,
                          block_number |-> block_number, before |-> accounts,
                          receipts |-> r.receipts, panicked |-> r.panicked]
    /\ ExecFrame

ExecNext ==
    \/ \E tx \in ExecTxs, block_number \in ExecBlockNumbers :
           Execute(tx, block_number)
    \/ \E transactions \in ExecBatches, block_number \in ExecBlockNumbers :
           ExecuteBatch(transactions, block_number)

(***************************************************************************)
(* TransactionExecutor::execute_parallel: the batch is cut into groups in  *)
(* which no sender repeats, and the groups are executed one after another. *)
(***************************************************************************)
\* A slip the grouping could have: the group still open after the loop is
\* not pushed
CloseLastGroupDropped(groups, current_group) == groups

\* lines 76-78: the group still open after the loop is pushed unless empty
CloseLastGroup(groups, current_group) ==
    IF current_group # <<>> THEN Append(groups, current_group) ELSE groups

\* lines 59-78: the loop over the batch from the i-th transaction on.  A
\* transaction whose sender is in seen_senders closes the current group.
RECURSIVE GroupBySender(_, _, _, _, _)
GroupBySender(transactions, i, groups, current_group, seen_senders) ==
    IF i > Len(transactions)
    THEN CloseLastGroup(groups, current_group)
    ELSE LET tx == transactions[i]
         IN IF tx.from \in seen_senders
            THEN GroupBySender(transactions, i + 1, Append(groups, current_group),
                               <<tx>>, {tx.from})
            ELSE GroupBySender(transactions, i + 1, groups,
                               Append(current_group, tx),
                               seen_senders \cup {tx.from})

\* The groups execute_parallel forms of a batch
sender_groups(transactions) == GroupBySender(transactions, 1, <<>>, <<>>, {})

\* lines 80-87: the groups in order, each group's transactions in order, on
\* the ledger the previous one left; a panic ends the call
RECURSIVE ExecuteGroupsFrom(_, _, _, _, _, _)
ExecuteGroupsFrom(accts, groups, g, block_number, receipts, checks) ==
    IF g > Len(groups)
    THEN [accounts |-> accts, receipts |-> receipts, panicked |-> FALSE]
    ELSE LET r == ExecuteFrom(accts, groups[g], 1, block_number, receipts, checks)
         IN IF r.panicked
            THEN r
            ELSE ExecuteGroupsFrom(r.accounts, groups, g + 1, block_number,
                                   r.receipts, checks)

\* TransactionExecutor::execute_parallel, lines 57-90
execute_parallel(accts, transactions, block_number, checks) ==
    ExecuteGroupsFrom(accts, sender_groups(transactions), 1, block_number, <<>>,
                      checks)

\* TransactionExecutor::execute_parallel as one call
ExecuteParallelBatch(transactions, block_number) ==
    /\ exec_ret = NoExec
    /\ LET r == execute_parallel(accounts, transactions, block_number,
                                 overflow_checks)
       IN /\ accounts' = r.accounts
          /\ exec_ret' = [call |-> "execute_parallel", transactions |-> transactions,
                          block_number |-> block_number, before |-> accounts,
                          receipts |-> r.receipts, panicked |-> r.panicked]
    /\ ExecFrame

\* The executor called once, with either way of running a batch
ExecGroupedNext ==
    \/ \E transactions \in ExecBatches, block_number \in ExecBlockNumbers :
           ExecuteBatch(transactions, block_number)
    \/ \E transactions \in ExecBatches, block_number \in ExecBlockNumbers :
           ExecuteParallelBatch(transactions, block_number)

(***************************************************************************)
(* consensus/producer.rs: BlockProducer                                    *)
(*                                                                         *)
(* start() calls produce_block on every tick, one call after the other.    *)
(* The block a cycle builds is printed and dropped; chain keeps the blocks *)
(* produced, and cycle what the last cycle pulled and executed.            *)
(***************************************************************************)
\* A slip produce_block could have: the receipt's status is not looked at
RECURSIVE FillBlockAll(_, _, _, _, _)
FillBlockAll(b, transactions, receipts, i, checks) ==
    IF i > Len(transactions)
    THEN [block |-> b, panicked |-> FALSE]
    ELSE LET r == block_add_transaction(b, transactions[i], checks)
         IN IF r.panicked
            THEN [block |-> b, panicked |-> TRUE]
            ELSE FillBlockAll(r.block, transactions, receipts, i + 1, checks)

\* lines 66-68: block.add_transaction for every transaction whose receipt
\* has status true, from the i-th pair on
RECURSIVE FillBlock(_, _, _, _, _)
FillBlock(b, transactions, receipts, i, checks) ==
    IF i > Len(transactions)
    THEN [block |-> b, panicked |-> FALSE]
    ELSE IF receipts[i].status
    THEN LET r == block_add_transaction(b, transactions[i], checks)
         IN IF r.panicked
            THEN [block |-> b, panicked |-> TRUE]
            ELSE FillBlock(r.block, transactions, receipts, i + 1, checks)
    ELSE FillBlock(b, transactions, receipts, i + 1, checks)

\* The genesis ledger of a run of the producer
ProducerGenesis ==
    [a \in {"alice", "bob"} |-> AccountNew(IF a = "alice" THEN 1000 ELSE 0)]

\* The transactions submitted to the pool of the producer
ProducerTxs ==
    { TransactionNew("alice", "bob", 100, 0),
      TransactionNew("bob", "alice", 50, 0),
      TransactionNew("alice", "bob", 0, 1),
      WithGasLimit(TransactionNew("alice", "carol", 100, 2), BlockGasLimit),
      WithGasLimit(TransactionNew("alice", "carol", 100, 3), U64Max) }

NoCycle == [block_number |-> 0, transactions |-> <<>>, receipts |-> <<>>]

\* BlockProducer::new, lines 16-30, over a pool and a ledger
ProducerInit ==
    /\ current_block = 0
    /\ last_hash = "0x0"
    /\ producer_alive = TRUE
    /\ chain = <<>>
    /\ cycle = NoCycle
    /\ executed_batches = <<>>
    /\ pending = <<>>
    /\ by_hash = EmptyMap
    /\ max_size = MaxPoolSize
    /\ pool_ret = RetNone
    /\ pool_out = <<>>
    /\ accepted = <<>>
    /\ taken = <<>>
    /\ accounts = ProducerGenesis
    /\ ledger_ret = RetNone
    /\ ledger_creates = 0

\* BlockProducer::produce_block, lines 41-83, at clock reading now
produce_block(now) ==
    /\ producer_alive
    /\ LET block_number == current_block + 1
           parent_hash == last_hash
           pulled == get_transactions(pending, BatchCap)
           transactions == pulled.result
           fresh == BlockNew(block_number, parent_hash, Validator, now)
           run == execute_batch(accounts, transactions, block_number, overflow_checks)
           filled == FillBlock(fresh, transactions, run.receipts, 1, overflow_checks)
       IN /\ current_block' = block_number
          /\ pending' = pulled.pending
          /\ pool_out' = transactions
          /\ taken' = taken \o transactions
          /\ IF transactions = <<>>
             THEN UNCHANGED <<accounts, last_hash, producer_alive, chain, cycle, executed_batches>>
             ELSE IF run.panicked \/ filled.panicked
             THEN /\ accounts' = run.accounts
                  /\ executed_batches' = executed_batches \o SubSeq(transactions, 1, Len(run.receipts))
                  /\ producer_alive' = FALSE
                  /\ UNCHANGED <<last_hash, chain, cycle>>
             ELSE /\ accounts' = run.accounts
                  /\ executed_batches' = executed_batches \o transactions
                  /\ last_hash' = filled.block.hash
                  /\ chain' = Append(chain, filled.block)
                  /\ cycle' = [block_number |-> block_number,
                               transactions |-> transactions,
                               receipts |-> run.receipts]
                  /\ UNCHANGED producer_alive
    /\ UNCHANGED <<by_hash, max_size, pool_ret, accepted, ledger_ret, ledger_creates>>
    /\ UNCHANGED <<overflow_checks, schedVars, concVars, blockVars, execVars,
                   engineVars, txVars, poolConcVars>>

\* BlockProducer::start, lines 32-39: a tick of the interval runs
\* produce_block; MaxTicks ticks are followed
ProduceBlock(now) ==
    /\ current_block < MaxTicks
    /\ produce_block(now)

\* A client submits a transaction: Mempool::add_transaction
Submit(tx) == AddTransaction(tx)

\* A tick of a producer that keeps ticking: beyond MaxTicks the ticks that
\* find transactions in the pool are followed
Tick(now) ==
    /\ (current_block < MaxTicks \/ pending # <<>>)
    /\ produce_block(now)

\* The transactions submitted to the producer that keeps ticking
LiveTxs ==
    { TransactionNew("alice", "bob", 100, 0),
      TransactionNew("bob", "alice", 50, 0),
      WithGasLimit(TransactionNew("alice", "carol", 100, 3), U64Max) }

ProducerLiveNext ==
    \/ \E tx \in LiveTxs : Submit(tx)
    \/ \E now \in Clock : Tick(now)

ProducerNext ==
    \/ \E tx \in ProducerTxs : Submit(tx)
    \/ \E now \in Clock : ProduceBlock(now)

(***************************************************************************)
(* l2-vm: ParallelExecutionEngine::execute_parallel                        *)
(*                                                                         *)
(* The calling thread prepares the batch, then runs execute_group on each  *)
(* group in turn.  execute_group spawns one thread per chunk of the group  *)
(* and joins them all.  A thread runs from the moment it is spawned; each  *)
(* of its critical sections (one Mutex held) is one step.                  *)
(*                                                                         *)
(* usize is modelled with WordBits bits, as u64 is.                        *)
(***************************************************************************)
\* largest ordinary thread count an engine is built with
MaxThreads == 3
\* longest batch handed to execute_parallel
MaxEngineBatch == 3

UsizeModulus == U64Modulus
UsizeMax == UsizeModulus - 1

\* The thread counts ParallelExecutionEngine::new is called with
ThreadCounts == (0..MaxThreads) \cup {UsizeMax}

EngineAccounts == {"alice", "bob", "carol"}

\* A transaction of these batches reads and writes one account, or reads
\* alice and writes bob
EngineDeclarations ==
    { [reads |-> {a}, writes |-> {a}] : a \in EngineAccounts }
        \cup { [reads |-> {"alice"}, writes |-> {"bob"}] }

\* Batches handed to execute_parallel: the i-th transaction has hash i
EngineBatches ==
    UNION { { [i \in 1..n |-> [hash |-> i, reads |-> d[i].reads, writes |-> d[i].writes]]
              : d \in [1..n -> EngineDeclarations] } : n \in 0..MaxEngineBatch }

\* line 218: (txs.len() + self.threads - 1) / self.threads, in usize arithmetic
ChunkSize(len, n_threads, checks) ==
    LET sum == len + n_threads
        wrapped == sum % UsizeModulus
        less == (wrapped - 1) % UsizeModulus
    IN IF checks /\ sum > UsizeMax THEN [panicked |-> TRUE, value |-> 0]
       ELSE IF checks /\ wrapped = 0 THEN [panicked |-> TRUE, value |-> 0]
       ELSE IF n_threads = 0 THEN [panicked |-> TRUE, value |-> 0]
       ELSE [panicked |-> FALSE, value |-> less \div n_threads]

\* What the engine leaves alone
EngineFrame ==
    UNCHANGED <<overflow_checks, ledgerVars, concVars, blockVars, poolVars, execVars,
                producerVars, txVars, poolConcVars>>

EngineIdle ==
    /\ threads = 0
    /\ engine_pc = "idle"
    /\ group_id = 0
    /\ chunk_size = 0
    /\ workers = <<>>
    /\ handles = <<>>
    /\ joined = 0
    /\ executed_txs = <<>>
    /\ executed_count = 0
    /\ account_locks = {}
    /\ total_executed = 0
    /\ engine_ret = RetNone

\* ParallelExecutionEngine::new, lines 41-50, and a batch to execute
EngineInit ==
    /\ threads \in ThreadCounts
    /\ engine_pc = "ready"
    /\ group_id = 0
    /\ chunk_size = 0
    /\ workers = <<>>
    /\ handles = <<>>
    /\ joined = 0
    /\ executed_txs = <<>>
    /\ executed_count = 0
    /\ account_locks = {}
    /\ total_executed = 0
    /\ engine_ret = RetNone
    /\ sched_txs \in EngineBatches
    /\ sched_groups = <<>>
    /\ sched_pc = "ready"
    /\ sched_leftover = <<>>
    /\ dependency_graph = <<>>
    /\ conflicts_detected = 0

\* The transaction a worker is at
WorkerTx(w) == sched_groups[workers[w].group][workers[w].pos]

\* execute_parallel, lines 53-64: the batch is prepared (lines 89-101) and the
\* total starts at zero
ExecuteParallel ==
    /\ engine_pc = "ready"
    /\ LET analysis == analyze_dependencies(sched_txs, dependency_graph,
                                            conflicts_detected)
       IN /\ dependency_graph' = analysis.dependency_graph
          /\ conflicts_detected' = analysis.conflicts_detected
    /\ sched_groups' = group_independent_txs(sched_txs)
    /\ sched_leftover' = GroupLoop(sched_txs, <<>>).remaining
    /\ sched_pc' = "done"
    /\ total_executed' = 0
    /\ engine_pc' = "loop"
    /\ UNCHANGED <<sched_txs, threads, group_id, chunk_size, workers, handles, joined,
                   executed_txs, executed_count, account_locks, engine_ret>>
    /\ EngineFrame

\* lines 66-70 and 213-220: the for loop enters the next group and
\* execute_group computes its chunk size; a zero thread count, an overflow
\* under overflow checks, or a chunk size of zero (slice::chunks) panics
BeginGroup ==
    /\ engine_pc = "loop"
    /\ group_id < Len(sched_groups)
    /\ LET txs == sched_groups[group_id + 1]
           size == ChunkSize(Len(txs), threads, overflow_checks)
       IN IF size.panicked \/ size.value = 0
          THEN /\ engine_pc' = "panicked"
               /\ UNCHANGED <<group_id, chunk_size, handles, executed_count>>
          ELSE /\ engine_pc' = "spawn"
               /\ group_id' = group_id + 1
               /\ chunk_size' = size.value
               /\ handles' = <<>>
               /\ executed_count' = 0
    /\ UNCHANGED <<schedVars, threads, workers, joined, executed_txs, account_locks,
                   total_executed, engine_ret>>
    /\ EngineFrame

\* lines 220-240: the next chunk of txs.chunks(chunk_size) gets its thread
SpawnWorker ==
    /\ engine_pc = "spawn"
    /\ LET txs == sched_groups[group_id]
           lo == Len(handles) * chunk_size + 1
           hi == Min(lo + chunk_size - 1, Len(txs))
       IN /\ workers' = Append(workers, [group |-> group_id, lo |-> lo, hi |-> hi,
                                         pos |-> lo, pc |-> "lock"])
          /\ handles' = Append(handles, Len(workers) + 1)
          /\ engine_pc' = IF hi = Len(txs) THEN "join" ELSE "spawn"
    /\ joined' = 0
    /\ UNCHANGED <<schedVars, threads, group_id, chunk_size, executed_txs,
                   executed_count, account_locks, total_executed, engine_ret>>
    /\ EngineFrame

\* execute_single, lines 253-259: the accounts of tx are inserted
WorkerLock(w) ==
    /\ workers[w].pc = "lock"
    /\ account_locks' = account_locks \cup TouchedAccounts(WorkerTx(w))
    /\ workers' = [workers EXCEPT ![w].pc = "unlock"]
    /\ UNCHANGED <<schedVars, threads, engine_pc, group_id, chunk_size, handles, joined,
                   executed_txs, executed_count, total_executed, engine_ret>>
    /\ EngineFrame

\* execute_single, lines 262-270: after the sleep the accounts are removed
WorkerUnlock(w) ==
    /\ workers[w].pc = "unlock"
    /\ account_locks' = account_locks \ TouchedAccounts(WorkerTx(w))
    /\ workers' = [workers EXCEPT ![w].pc = "record"]
    /\ UNCHANGED <<schedVars, threads, engine_pc, group_id, chunk_size, handles, joined,
                   executed_txs, executed_count, total_executed, engine_ret>>
    /\ EngineFrame

\* line 232: executed_txs.lock().unwrap().push(tx)
WorkerRecord(w) ==
    /\ workers[w].pc = "record"
    /\ executed_txs' = Append(executed_txs, WorkerTx(w))
    /\ workers' = [workers EXCEPT ![w].pc = "count"]
    /\ UNCHANGED <<schedVars, threads, engine_pc, group_id, chunk_size, handles, joined,
                   executed_count, account_locks, total_executed, engine_ret>>
    /\ EngineFrame

\* lines 234-236: the count is bumped and the loop over chunk_txs goes on
WorkerCount(w) ==
    /\ workers[w].pc = "count"
    /\ executed_count' = executed_count + 1
    /\ workers' = [workers EXCEPT ![w].pos = @ + 1,
                                  ![w].pc = IF workers[w].pos = workers[w].hi
                                            THEN "done" ELSE "lock"]
    /\ UNCHANGED <<schedVars, threads, engine_pc, group_id, chunk_size, handles, joined,
                   executed_txs, account_locks, total_executed, engine_ret>>
    /\ EngineFrame

\* A slip the join loop could have: the handle is dropped without joining
JoinReadyNoWait(w) == TRUE

\* line 244: handle.join() returns once the thread has finished
JoinReady(w) == workers[w].pc = "done"

\* lines 243-247 and 71: the next handle is joined; after the last one the
\* count is returned and added to the total
JoinWorker ==
    /\ engine_pc = "join"
    /\ JoinReady(handles[joined + 1])
    /\ joined' = joined + 1
    /\ IF joined + 1 = Len(handles)
       THEN /\ total_executed' = total_executed + executed_count
            /\ engine_pc' = "loop"
       ELSE UNCHANGED <<total_executed, engine_pc>>
    /\ UNCHANGED <<schedVars, threads, group_id, chunk_size, workers, handles,
                   executed_txs, executed_count, account_locks, engine_ret>>
    /\ EngineFrame

\* lines 74-85: after the last group the result is returned
Finish ==
    /\ engine_pc = "loop"
    /\ group_id = Len(sched_groups)
    /\ engine_ret' = RetValue([total_txs |-> total_executed,
                               conflicts_detected |-> conflicts_detected])
    /\ engine_pc' = "done"
    /\ UNCHANGED <<schedVars, threads, group_id, chunk_size, workers, handles, joined,
                   executed_txs, executed_count, account_locks, total_executed>>
    /\ EngineFrame

EngineNext ==
    \/ ExecuteParallel
    \/ BeginGroup
    \/ SpawnWorker
    \/ \E w \in 1..Len(workers) : WorkerLock(w)
    \/ \E w \in 1..Len(workers) : WorkerUnlock(w)
    \/ \E w \in 1..Len(workers) : WorkerRecord(w)
    \/ \E w \in 1..Len(workers) : WorkerCount(w)
    \/ JoinWorker
    \/ Finish

(***************************************************************************)
(* l2-vm: the ConflictDetector of one engine over several batches          *)
(***************************************************************************)
\* analyze_dependencies calls are followed while the counter is below this
MaxConflicts == 3

\* The declarations of the batches analysed here
DetectorDeclarations ==
    { [reads |-> {}, writes |-> {"alice"}],
      [reads |-> {"alice"}, writes |-> {}],
      [reads |-> {"alice"}, writes |-> {"bob"}],
      [reads |-> {"bob"}, writes |-> {}] }

\* Batches handed to analyze_dependencies: the i-th transaction has hash i
DetectorBatches ==
    UNION { { [i \in 1..n |-> [hash |-> i, reads |-> d[i].reads, writes |-> d[i].writes]]
              : d \in [1..n -> DetectorDeclarations] } : n \in 0..MaxBatch }

\* ParallelExecutionEngine::new, lines 41-50: a fresh ConflictDetector
DetectorInit ==
    /\ sched_txs = <<>>
    /\ sched_groups = <<>>
    /\ sched_pc = "ready"
    /\ sched_leftover = <<>>
    /\ dependency_graph = <<>>
    /\ conflicts_detected = 0

\* analyze_dependencies, lines 104-125, on the next batch of the engine
AnalyzeDependencies(txs) ==
    /\ conflicts_detected < MaxConflicts
    /\ sched_txs' = txs
    /\ LET analysis == analyze_dependencies(txs, dependency_graph, conflicts_detected)
       IN /\ dependency_graph' = analysis.dependency_graph
          /\ conflicts_detected' = analysis.conflicts_detected
    /\ UNCHANGED <<sched_groups, sched_pc, sched_leftover, overflow_checks, ledgerVars,
                   concVars, blockVars, poolVars, execVars, producerVars, engineVars, txVars, poolConcVars>>

DetectorNext == \E txs \in DetectorBatches : AnalyzeDependencies(txs)

(***************************************************************************)
(* Idle values of the subsystems a specification does not exercise.        *)
(***************************************************************************)
ExecIdle == exec_ret = NoExec

ConcIdle ==
    /\ rw_writer = 0
    /\ rw_readers = {}
    /\ task_pc = <<>>
    /\ task_call = <<>>
    /\ task_ret = <<>>
    /\ torn_read = FALSE

BlockIdle ==
    /\ block = BlockNew(0, "", "", 0)
    /\ block_ret = RetNone

PoolIdle ==
    /\ pending = <<>>
    /\ by_hash = EmptyMap
    /\ max_size = 0
    /\ pool_ret = RetNone
    /\ pool_out = <<>>
    /\ accepted = <<>>
    /\ taken = <<>>

ProducerIdle ==
    /\ current_block = 0
    /\ last_hash = ""
    /\ producer_alive = FALSE
    /\ chain = <<>>
    /\ cycle = <<>>
    /\ executed_batches = <<>>

(***************************************************************************)
(* Specifications.                                                         *)
(***************************************************************************)
\* The scheduler applied to every batch of the bounds
InitSched ==
    /\ overflow_checks \in BOOLEAN
    /\ TxIdle
    /\ PoolConcIdle
    /\ ExecIdle /\ EngineIdle
    /\ SchedInit /\ LedgerIdle /\ ConcIdle /\ BlockIdle /\ PoolIdle /\ ProducerIdle

NextSched == Schedule

SpecSched == InitSched /\ [][NextSched]_vars

\* WorldState called by one caller at a time
InitLedger ==
    /\ overflow_checks \in BOOLEAN
    /\ TxIdle
    /\ PoolConcIdle
    /\ ExecIdle /\ EngineIdle
    /\ LedgerInit /\ SchedIdle /\ ConcIdle /\ BlockIdle /\ PoolIdle /\ ProducerIdle

SpecLedger == InitLedger /\ [][LedgerNext]_vars

\* One Block filled by add_transaction calls
InitBlock ==
    /\ overflow_checks \in BOOLEAN
    /\ TxIdle
    /\ PoolConcIdle
    /\ ExecIdle /\ EngineIdle
    /\ BlockInit /\ SchedIdle /\ LedgerIdle /\ ConcIdle /\ PoolIdle /\ ProducerIdle

SpecBlock == InitBlock /\ [][BlockNext]_vars

\* One Mempool
InitPool ==
    /\ overflow_checks \in BOOLEAN
    /\ TxIdle
    /\ PoolConcIdle
    /\ ExecIdle /\ EngineIdle
    /\ PoolInit /\ SchedIdle /\ LedgerIdle /\ ConcIdle /\ BlockIdle /\ ProducerIdle

SpecPool == InitPool /\ [][PoolNext]_vars

\* The block producer over its pool and ledger, with clients submitting
InitProducer ==
    /\ overflow_checks \in BOOLEAN
    /\ TxIdle
    /\ PoolConcIdle
    /\ ExecIdle /\ EngineIdle
    /\ ProducerInit /\ SchedIdle /\ ConcIdle /\ BlockIdle

SpecProducer == InitProducer /\ [][ProducerNext]_vars

\* The same producer, ticking for as long as it lives: the loop of start
\* (lines 35-38) runs produce_block on every tick of its interval
SpecProducerLive ==
    /\ InitProducer
    /\ [][ProducerLiveNext]_vars
    /\ WF_vars(\E now \in Clock : Tick(now))

\* WorldState called by NumTasks concurrent tasks
InitLedgerConc ==
    /\ overflow_checks \in BOOLEAN
    /\ TxIdle
    /\ PoolConcIdle
    /\ ExecIdle /\ EngineIdle
    /\ ConcInit /\ ledger_ret = RetNone /\ ledger_creates = 0
    /\ SchedIdle /\ BlockIdle /\ PoolIdle /\ ProducerIdle

SpecLedgerConc == InitLedgerConc /\ [][ConcNext]_vars

\* One TransactionExecutor call on a ledger
InitExecutor ==
    /\ overflow_checks \in BOOLEAN
    /\ TxIdle
    /\ PoolConcIdle
    /\ EngineIdle
    /\ ExecInit /\ SchedIdle /\ ConcIdle /\ BlockIdle /\ PoolIdle /\ ProducerIdle

SpecExecutor == InitExecutor /\ [][ExecNext]_vars

SpecExecutorGrouped == InitExecutor /\ [][ExecGroupedNext]_vars

\* One execute_parallel call of an engine, with its worker threads
InitEngine ==
    /\ overflow_checks \in BOOLEAN
    /\ TxIdle
    /\ PoolConcIdle
    /\ ExecIdle
    /\ EngineInit /\ LedgerIdle /\ ConcIdle /\ BlockIdle /\ PoolIdle /\ ProducerIdle

SpecEngine == InitEngine /\ [][EngineNext]_vars

\* One ConflictDetector analysing batch after batch
InitDetector ==
    /\ overflow_checks \in BOOLEAN
    /\ TxIdle
    /\ PoolConcIdle
    /\ ExecIdle /\ EngineIdle
    /\ DetectorInit /\ LedgerIdle /\ ConcIdle /\ BlockIdle /\ PoolIdle /\ ProducerIdle

SpecDetector == InitDetector /\ [][DetectorNext]_vars

\* Transactions built by Transaction::new
InitIdentity ==
    /\ overflow_checks \in BOOLEAN
    /\ ExecIdle /\ EngineIdle
    /\ PoolConcIdle
    /\ TxInit /\ SchedIdle /\ LedgerIdle /\ ConcIdle /\ BlockIdle /\ PoolIdle /\ ProducerIdle

SpecIdentity == InitIdentity /\ [][TxNext]_vars

\* One Mempool called by NumCallers concurrent tasks
InitPoolConc ==
    /\ overflow_checks \in BOOLEAN
    /\ ExecIdle /\ EngineIdle
    /\ TxIdle
    /\ PoolConcInit /\ SchedIdle /\ LedgerIdle /\ ConcIdle /\ BlockIdle /\ ProducerIdle

SpecPoolConc == InitPoolConc /\ [][PoolConcNext]_vars

\* The same, with every started call scheduled again and again (the tokio
\* runtime polls every ready task, and its RwLock grants waiters in turn)
SpecPoolConcFair ==
    /\ SpecPoolConc
    /\ \A t \in Callers : WF_vars(AcquireGuard(t) \/ RunPoolCall(t))

(***************************************************************************)
(* Properties of the scheduler (SpecSched).                                *)
(***************************************************************************)
\* The places <<g, k>> of the emitted groups
GroupPlaces(groups) ==
    { <<g, k>> : g \in 1..Len(groups), k \in 1..MaxBatch + 1 } \cap
    UNION { { <<g, k>> : k \in 1..Len(groups[g]) } : g \in 1..Len(groups) }

\* The write-write / read-write / write-read rule of the specification
RuleConflict(tx1, tx2) ==
    \/ tx1.writes \cap tx2.writes # {}
    \/ tx1.reads \cap tx2.writes # {}
    \/ tx1.writes \cap tx2.reads # {}

\* C1 - Partition completeness: once the scheduler has run, every transaction
\* of the batch sits at exactly one place of the emitted groups, and the groups
\* hold nothing else (as many places as the batch has transactions).
C1_PartitionComplete ==
    sched_pc = "done" =>
        /\ \A i \in 1..Len(sched_txs) :
               Cardinality({ p \in GroupPlaces(sched_groups) :
                               sched_groups[p[1]][p[2]] = sched_txs[i] }) = 1
        /\ Cardinality(GroupPlaces(sched_groups)) = Len(sched_txs)

\* C1 witness: a batch of three was split into two groups, one with two members
C1_Witness ==
    /\ sched_pc = "done"
    /\ Len(sched_txs) = 3
    /\ Len(sched_groups) = 2
    /\ \E g \in 1..Len(sched_groups) : Len(sched_groups[g]) = 2

\* C2 - Conflict-freedom: any two distinct members of one emitted group have
\* disjoint write sets and neither reads what the other writes.
C2_ConflictFree ==
    sched_pc = "done" =>
        \A g \in 1..Len(sched_groups) :
            \A i, j \in 1..Len(sched_groups[g]) :
                i # j => ~RuleConflict(sched_groups[g][i], sched_groups[g][j])

\* C2 witness: two transactions writing the same key were put in different
\* groups, while some group took two members
C2_Witness ==
    /\ sched_pc = "done"
    /\ \E p, q \in GroupPlaces(sched_groups) :
           /\ p[1] # q[1]
           /\ sched_groups[p[1]][p[2]].writes \cap sched_groups[q[1]][q[2]].writes # {}
    /\ \E g \in 1..Len(sched_groups) : Len(sched_groups[g]) >= 2

(***************************************************************************)
(* Properties of the ledger (SpecLedger).                                  *)
(***************************************************************************)
\* C4 - Conservation: every transfer call, successful or failing, leaves the
\* sum of the balances of all accounts as it was.
C4_Conservation ==
    [][\A from \in Addresses, to \in Addresses, amount \in Amounts :
           Transfer(from, to, amount) =>
               TotalBalance(accounts') = TotalBalance(accounts)]_vars

\* Where the credited balance fits in 64 bits, a transfer does conserve the sum
ConservationWhereCreditFits ==
    [][\A from \in Addresses, to \in Addresses, amount \in Amounts :
           (/\ Transfer(from, to, amount)
            /\ ~(/\ from \in DOMAIN accounts
                 /\ accounts[from].balance >= amount
                 /\ CreditOverflows(Debit(accounts, from, amount), to, amount))) =>
               TotalBalance(accounts') = TotalBalance(accounts)]_vars

\* C8 - Transfer failure leaves the ledger unchanged: an unknown sender gives
\* "From account not found", a balance below the amount gives "Insufficient
\* balance", and in both cases the ledger (balances, nonces, the set of
\* accounts) is as before.
C8_FailureUnchanged ==
    [][\A from \in Addresses, to \in Addresses, amount \in Amounts :
           Transfer(from, to, amount) =>
               /\ from \notin DOMAIN accounts =>
                      ledger_ret' = ErrFromNotFound /\ accounts' = accounts
               /\ (from \in DOMAIN accounts /\ accounts[from].balance < amount) =>
                      ledger_ret' = ErrInsufficient /\ accounts' = accounts]_vars

\* C8 witness: a transfer failed for insufficient balance towards an address
\* that has no account
C8_Witness ==
    /\ ledger_ret = ErrInsufficient
    /\ \E to \in Addresses : to \notin DOMAIN accounts
    /\ \E from \in DOMAIN accounts : accounts[from].balance < U64Max

\* C9 - Transfer success effect: with an existing sender whose balance covers
\* the amount and a different recipient, the sender loses the amount and gains
\* one nonce, the recipient gains the amount (created with it and nonce 0 when
\* absent), and every other account is unchanged.
C9_SuccessEffect ==
    [][\A from \in Addresses, to \in Addresses, amount \in Amounts :
           (/\ Transfer(from, to, amount)
            /\ from \in DOMAIN accounts
            /\ accounts[from].balance >= amount
            /\ from # to) =>
               /\ ledger_ret' = RetOk
               /\ DOMAIN accounts' = DOMAIN accounts \cup {to}
               /\ accounts'[from].balance = accounts[from].balance - amount
               /\ accounts'[from].nonce = accounts[from].nonce + 1
               /\ IF to \in DOMAIN accounts
                  THEN /\ accounts'[to].balance = accounts[to].balance + amount
                       /\ accounts'[to].nonce = accounts[to].nonce
                  ELSE accounts'[to] = [balance |-> amount, nonce |-> 0]
               /\ \A other \in DOMAIN accounts \ {from, to} :
                      accounts'[other] = accounts[other]]_vars

\* Where the credited balance fits in 64 bits, a covered transfer to another
\* account has exactly that effect
SuccessEffectWhereCreditFits ==
    [][\A from \in Addresses, to \in Addresses, amount \in Amounts :
           (/\ Transfer(from, to, amount)
            /\ from \in DOMAIN accounts
            /\ accounts[from].balance >= amount
            /\ from # to
            /\ ~CreditOverflows(accounts, to, amount)) =>
               /\ ledger_ret' = RetOk
               /\ DOMAIN accounts' = DOMAIN accounts \cup {to}
               /\ accounts'[from] = [balance |-> accounts[from].balance - amount,
                                     nonce |-> accounts[from].nonce + 1]
               /\ accounts'[to] = IF to \in DOMAIN accounts
                                  THEN [accounts[to] EXCEPT !.balance = @ + amount]
                                  ELSE AccountNew(amount)
               /\ \A other \in DOMAIN accounts \ {from, to} :
                      accounts'[other] = accounts[other]]_vars

(***************************************************************************)
(* Properties of the ledger under concurrent tasks (SpecLedgerConc).       *)
(***************************************************************************)
\* C7 - Transfer atomicity under concurrency: no get_balance or get_nonce ever
\* returns a value of an account that a transfer has debited or is still to
\* credit, taken while that transfer is debited but not credited.
C7_NoTornRead == ~torn_read

\* Without overflow checks no transfer stops half-way, and no read is torn
NoTornReadWithoutPanic == ~overflow_checks => ~torn_read

\* The RwLock itself excludes: a writer holds the lock alone
LockExclusion ==
    /\ rw_writer # 0 => rw_readers = {}
    /\ \A t \in Tasks : task_pc[t] \in {"t_check", "t_debit", "t_credit", "t_return"}
                           <=> rw_writer = t
    /\ \A t \in Tasks : task_pc[t] = "r_read" <=> t \in rw_readers

(***************************************************************************)
(* Properties of Block (SpecBlock).                                        *)
(***************************************************************************)
\* C6 - Gas budget: whatever transactions were offered, the gas_limit of the
\* transactions held in the block sum to at most the block's gas_limit, and
\* gas_used is that sum.
C6_GasBudget ==
    /\ SumGas(block.transactions) <= block.gas_limit
    /\ block.gas_used = SumGas(block.transactions)

\* Under overflow checks the addition panics instead of wrapping, and the
\* budget holds of the blocks that are left
GasBudgetUnderOverflowChecks ==
    overflow_checks =>
        /\ SumGas(block.transactions) <= block.gas_limit
        /\ block.gas_used = SumGas(block.transactions)

(***************************************************************************)
(* Properties of Mempool (SpecPool).                                       *)
(***************************************************************************)
\* C10 - Pool capacity: the pending queue never holds more than max_size
\* transactions, and add_transaction on a pool holding max_size of them
\* returns "Mempool full" and leaves the queue and the hash index as they were.
C10_PoolCapacity ==
    /\ [](Len(pending) <= max_size)
    /\ [][\A tx \in PoolTxs :
              (AddTransaction(tx) /\ Len(pending) = max_size) =>
                  /\ pool_ret' = ErrPoolFull
                  /\ pending' = pending
                  /\ by_hash' = by_hash]_vars

\* C10 witness: a pool of the largest capacity is filled to it and has just
\* refused a further one
C10_Witness ==
    /\ max_size = MaxPoolSize
    /\ Len(pending) = max_size
    /\ pool_ret = ErrPoolFull

(***************************************************************************)
(* Properties of the block producer (SpecProducer).                        *)
(***************************************************************************)
\* C5 - Hash-chain integrity: the first produced block has parent_hash "0x0",
\* every later one has as parent_hash the hash of the block produced before
\* it, and that hash is the one of the block with all its transactions in.
C5_HashChain ==
    \A i \in 1..Len(chain) :
        /\ chain[i].parent_hash = IF i = 1 THEN "0x0" ELSE chain[i - 1].hash
        /\ chain[i].hash = BlockCalculateHash(chain[i])
        /\ i = Len(chain) => last_hash = chain[i].hash

\* C5 witness: two blocks were produced with an empty tick between them, the
\* first holding a transaction
C5_Witness ==
    /\ Len(chain) = 2
    /\ chain[1].transactions # <<>>
    /\ chain[2].number = chain[1].number + 2

(***************************************************************************)
(* Properties of the pool's duplicate check, order and recovery.           *)
(***************************************************************************)
\* A transaction of this hash was accepted by the pool earlier
AcceptedEarlier(tx) == \E i \in 1..Len(accepted) : accepted[i].hash = tx.hash

\* A transaction of this hash is in a produced block
Included(tx) ==
    \E i \in 1..Len(chain) :
        \E k \in 1..Len(chain[i].transactions) : chain[i].transactions[k].hash = tx.hash

C12_FifoBatches ==
    /\ [](accepted = taken \o pending)
    /\ [][\A count \in (0..MaxPoolSize) \cup {BatchCap} :
              GetTransactions(count) =>
                  LET n == IF count < Len(pending) THEN count ELSE Len(pending)
                  IN /\ pool_out' = SubSeq(pending, 1, n)
                     /\ pending' = SubSeq(pending, n + 1, Len(pending))]_vars
    /\ [][Len(pending') > Len(pending) =>
              \E tx \in PoolTxs : AddTransaction(tx) /\ pending' = Append(pending, tx)]_vars

\* C12 witness: two batches were pulled, the second leaving a transaction
\* pending
C12_Witness ==
    /\ pool_out # <<>>
    /\ Len(taken) > Len(pool_out)
    /\ pending # <<>>
    /\ Len(accepted) >= 3

\* C13 - Capacity recovery: at capacity every add_transaction fails with
\* "Mempool full"; only a get_transactions takes the queue below capacity; and
\* below capacity an add_transaction of a hash never accepted before succeeds.
C13_CapacityRecovery ==
    /\ [][\A tx \in PoolTxs :
              (AddTransaction(tx) /\ Len(pending) >= max_size) =>
                  pool_ret' = ErrPoolFull /\ Len(pending') = Len(pending)]_vars
    /\ [][Len(pending') < Len(pending) =>
              \E count \in (0..MaxPoolSize) \cup {BatchCap} : GetTransactions(count)]_vars
    /\ [][\A tx \in PoolTxs :
              (AddTransaction(tx) /\ Len(pending) < max_size /\ ~AcceptedEarlier(tx)) =>
                  pool_ret' = RetOk /\ pending' = Append(pending, tx)]_vars

\* C13 witness: a pool that was filled and pulled from has accepted a
\* transaction of a new hash and is full again
C13_Witness ==
    /\ pool_ret = RetOk
    /\ max_size >= 1
    /\ Len(pending) = max_size
    /\ taken # <<>>
    /\ Len(accepted) > max_size
    /\ Cardinality({accepted[i].hash : i \in 1..Len(accepted)}) = Len(accepted)

(***************************************************************************)
(* Properties of TransactionExecutor (SpecExecutor).                       *)
(***************************************************************************)
\* C14 - Per-transaction pipeline: execute gives (a) status false, gas_used 0
\* and the ledger as it was when the sender or the recipient is empty or the
\* value is 0; (b) status true and gas_used = gas_limit when verification
\* passes and the transfer returns Ok; (c) status false, gas_used 21000 and
\* the transfer's error in the log when verification passes and the transfer
\* returns an error.
C14_Pipeline ==
    exec_ret.call = "execute" =>
        LET tx == exec_ret.transactions[1]
            before == exec_ret.before
            unverified == tx.from = "" \/ tx.to = "" \/ tx.value = 0
            unknown == tx.from \notin DOMAIN before
            uncovered == ~unknown /\ before[tx.from].balance < tx.value
            stopped == /\ overflow_checks
                       /\ CreditOverflows(Debit(before, tx.from, tx.value), tx.to, tx.value)
        IN /\ unverified =>
                  /\ ~exec_ret.panicked
                  /\ exec_ret.receipts[1].status = FALSE
                  /\ exec_ret.receipts[1].gas_used = 0
                  /\ accounts = before
           /\ (~unverified /\ ~unknown /\ ~uncovered /\ ~stopped) =>
                  /\ ~exec_ret.panicked
                  /\ exec_ret.receipts[1].status = TRUE
                  /\ exec_ret.receipts[1].gas_used = tx.gas_limit
           /\ (~unverified /\ (unknown \/ uncovered)) =>
                  /\ ~exec_ret.panicked
                  /\ exec_ret.receipts[1].status = FALSE
                  /\ exec_ret.receipts[1].gas_used = 21000
                  /\ exec_ret.receipts[1].logs =
                         << "Execution failed: " \o
                            (IF unknown THEN "From account not found"
                             ELSE "Insufficient balance") >>

\* C14 witness: a verified transaction of a sender with balance 0 was executed
\* and failed for insufficient balance
C14_Witness ==
    /\ exec_ret.call = "execute"
    /\ exec_ret.transactions[1].from = "bob"
    /\ exec_ret.before["bob"].balance = 0
    /\ exec_ret.transactions[1].value > 0
    /\ exec_ret.receipts # <<>>
    /\ exec_ret.receipts[1].gas_used = 21000

\* The ledger execute_batch has made after the first i transactions of the call
LedgerAt(i) ==
    execute_batch(exec_ret.before, SubSeq(exec_ret.transactions, 1, i),
                  exec_ret.block_number, overflow_checks).accounts

\* The transactions of the call without those that got a failed receipt
RECURSIVE KeptFrom(_)
KeptFrom(i) ==
    IF i > Len(exec_ret.transactions) THEN <<>>
    ELSE IF i <= Len(exec_ret.receipts) /\ ~exec_ret.receipts[i].status
    THEN KeptFrom(i + 1)
    ELSE <<exec_ret.transactions[i]>> \o KeptFrom(i + 1)

\* C15 - Failure isolation: in execute_batch a transaction that got a failed
\* receipt changed no account and the loop went on to the next transaction;
\* the ledger left, and the receipts of the others, are those of the same
\* batch executed without the failing transactions.
C15_FailureIsolation ==
    exec_ret.call = "execute_batch" =>
        LET executed == Len(exec_ret.receipts) + (IF exec_ret.panicked THEN 1 ELSE 0)
            rerun == execute_batch(exec_ret.before, KeptFrom(1),
                                   exec_ret.block_number, overflow_checks)
        IN /\ \A i \in 1..Len(exec_ret.receipts) :
                  ~exec_ret.receipts[i].status =>
                      /\ LedgerAt(i) = LedgerAt(i - 1)
                      /\ i < Len(exec_ret.transactions) => executed > i
           /\ accounts = rerun.accounts
           /\ rerun.receipts = SelectSeq(exec_ret.receipts, LAMBDA r : r.status)
           /\ rerun.panicked = exec_ret.panicked

\* C15 witness: a batch of three whose second transaction failed for a ledger
\* error, the first and the third having moved funds
C15_Witness ==
    /\ exec_ret.call = "execute_batch"
    /\ Len(exec_ret.receipts) = 3
    /\ exec_ret.receipts[1].status
    /\ ~exec_ret.receipts[2].status /\ exec_ret.receipts[2].gas_used = 21000
    /\ exec_ret.receipts[3].status

\* C16 - One receipt per transaction: execute_batch returns as many receipts
\* as the batch has transactions, the i-th with the hash of the i-th
\* transaction and the block number of the call.
C16_OneReceiptPerTx ==
    exec_ret.call = "execute_batch" =>
        /\ Len(exec_ret.receipts) = Len(exec_ret.transactions)
        /\ \A i \in 1..Len(exec_ret.receipts) :
               /\ exec_ret.receipts[i].tx_hash = exec_ret.transactions[i].hash
               /\ exec_ret.receipts[i].block_number = exec_ret.block_number

\* Where execute_batch returns, it returns one receipt per transaction
OneReceiptPerTxWhereReturned ==
    (exec_ret.call = "execute_batch" /\ ~exec_ret.panicked) =>
        /\ Len(exec_ret.receipts) = Len(exec_ret.transactions)
        /\ \A i \in 1..Len(exec_ret.receipts) :
               /\ exec_ret.receipts[i].tx_hash = exec_ret.transactions[i].hash
               /\ exec_ret.receipts[i].block_number = exec_ret.block_number

(***************************************************************************)
(* Properties of the produced blocks (SpecProducer).                       *)
(***************************************************************************)
\* a is a subsequence of b: b with some entries left out
RECURSIVE IsSubsequence(_, _)
IsSubsequence(a, b) ==
    IF a = <<>> THEN TRUE
    ELSE IF b = <<>> THEN FALSE
    ELSE IF a[1] = b[1] THEN IsSubsequence(Tail(a), Tail(b))
    ELSE IsSubsequence(a, Tail(b))

\* The transactions of the last cycle whose receipt has status true, in pull order
RECURSIVE CycleSuccessesFrom(_)
CycleSuccessesFrom(i) ==
    IF i > Len(cycle.transactions) THEN <<>>
    ELSE IF cycle.receipts[i].status
    THEN <<cycle.transactions[i]>> \o CycleSuccessesFrom(i + 1)
    ELSE CycleSuccessesFrom(i + 1)

\* C17 - Block content: the transactions of the block a cycle produced are a
\* subsequence, in pull order, of the batch pulled in that cycle, and none of
\* them has a receipt with status false.
C17_BlockContent ==
    chain # <<>> =>
        /\ cycle.block_number = chain[Len(chain)].number
        /\ Len(cycle.receipts) = Len(cycle.transactions)
        /\ IsSubsequence(chain[Len(chain)].transactions, CycleSuccessesFrom(1))

\* C17 witness: a cycle pulled a transaction that failed and one that
\* succeeded, and produced a block holding fewer transactions than it pulled
C17_Witness ==
    /\ chain # <<>>
    /\ chain[Len(chain)].transactions # <<>>
    /\ Len(chain[Len(chain)].transactions) < Len(cycle.transactions)
    /\ \E i \in 1..Len(cycle.receipts) : ~cycle.receipts[i].status

\* C18 - No empty block: every block produce_block has made the chain tip
\* holds at least one transaction.
C18_NoEmptyBlock ==
    \A i \in 1..Len(chain) : chain[i].transactions # <<>>

\* Every produced block comes from a pull that returned at least one transaction
ProducedFromNonEmptyPull ==
    chain # <<>> => cycle.transactions # <<>>

\* C19 - Empty tick is a no-op: a tick that finds the queue empty leaves the
\* chain tip hash, the block-number counter, the pool and the ledger as they
\* were.
C19_EmptyTickNoOp ==
    [][\A now \in Clock :
           (ProduceBlock(now) /\ pending = <<>>) =>
               /\ last_hash' = last_hash
               /\ current_block' = current_block
               /\ pending' = pending /\ by_hash' = by_hash /\ max_size' = max_size
               /\ accounts' = accounts]_vars

\* An empty tick leaves the chain tip hash, the pool and the ledger as they were
EmptyTickKeepsTipPoolLedger ==
    [][\A now \in Clock :
           (ProduceBlock(now) /\ pending = <<>>) =>
               /\ last_hash' = last_hash
               /\ pending' = pending /\ by_hash' = by_hash /\ max_size' = max_size
               /\ accounts' = accounts
               /\ chain' = chain]_vars

\* C20 - Block numbering: the first produced block has number 1, each later
\* one the number of the block produced before it plus one, and its
\* parent_hash is that block's hash.
C20_BlockNumbering ==
    \A i \in 1..Len(chain) :
        /\ chain[i].number = i
        /\ i > 1 => chain[i].parent_hash = chain[i - 1].hash

\* Block numbers start at 1 or later and increase strictly along the chain
BlockNumbersIncrease ==
    \A i \in 1..Len(chain) :
        /\ chain[i].number >= i
        /\ i > 1 => chain[i].number > chain[i - 1].number

(***************************************************************************)
(* Properties of the scheduler's order and of the conflict analysis        *)
(* (SpecSched).                                                            *)
(***************************************************************************)
\* The group the i-th transaction of the batch was placed in
GroupOf(i) ==
    CHOOSE g \in 1..Len(sched_groups) :
        \E k \in 1..Len(sched_groups[g]) : sched_groups[g][k].hash = i

\* C23 - Serial equivalence to arrival order: whenever two transactions of
\* the batch conflict (write-write, read-write or write-read), the one that
\* arrived earlier is in a strictly earlier group than the one that arrived
\* later.
C23_SerialEquivalence ==
    sched_pc = "done" =>
        \A i, j \in 1..Len(sched_txs) :
            (i < j /\ RuleConflict(sched_txs[i], sched_txs[j])) =>
                GroupOf(i) < GroupOf(j)

\* In batches of two transactions the arrival order of conflicting
\* transactions is kept
SerialEquivalenceOfPairs ==
    (sched_pc = "done" /\ Len(sched_txs) <= 2) =>
        \A i, j \in 1..Len(sched_txs) :
            (i < j /\ RuleConflict(sched_txs[i], sched_txs[j])) =>
                GroupOf(i) < GroupOf(j)

\* The recorded relation: other is recorded against hash in dependency_graph
Recorded(hash, other) ==
    /\ hash \in DOMAIN dependency_graph
    /\ \E k \in 1..Len(dependency_graph[hash]) : dependency_graph[hash][k] = other

\* C26 - Conflict rule: detect_conflict(i, j) is true exactly when the write
\* sets meet, or i reads what j writes, or i writes what j reads; it gives
\* the same answer for (j, i); and analyze_dependencies records j against i
\* exactly when they conflict, hence symmetrically, counting each ordered
\* conflicting pair once.
C26_ConflictRule ==
    sched_pc = "done" =>
        /\ \A i, j \in 1..Len(sched_txs) :
               /\ detect_conflict(sched_txs[i], sched_txs[j])
                      <=> RuleConflict(sched_txs[i], sched_txs[j])
               /\ detect_conflict(sched_txs[i], sched_txs[j])
                      <=> detect_conflict(sched_txs[j], sched_txs[i])
               /\ i # j => (Recorded(i, j) <=> RuleConflict(sched_txs[i], sched_txs[j]))
               /\ Recorded(i, j) <=> Recorded(j, i)
        /\ conflicts_detected =
               Cardinality({ p \in (1..Len(sched_txs)) \X (1..Len(sched_txs)) :
                               p[1] # p[2] /\ RuleConflict(sched_txs[p[1]], sched_txs[p[2]]) })

\* C26 witness: two transactions that conflict only because the first writes
\* what the second reads were recorded against each other
C26_Witness ==
    /\ sched_pc = "done"
    /\ \E i, j \in 1..Len(sched_txs) :
           /\ i # j
           /\ sched_txs[i].writes \cap sched_txs[j].writes = {}
           /\ sched_txs[i].reads \cap sched_txs[j].writes = {}
           /\ sched_txs[i].writes \cap sched_txs[j].reads # {}
           /\ Recorded(i, j) /\ Recorded(j, i)

\* C27 - Universal contention: when every transaction of the batch touches
\* one common key, the groups are one single-transaction group per
\* transaction, in arrival order.
C27_UniversalContention ==
    (/\ sched_pc = "done"
     /\ \E key \in AccountKeys :
            \A i \in 1..Len(sched_txs) : key \in TouchedAccounts(sched_txs[i])) =>
        sched_groups = [i \in 1..Len(sched_txs) |-> <<sched_txs[i]>>]

\* C27 witness: three transactions share a key, one of them only reading it
C27_Witness ==
    /\ sched_pc = "done"
    /\ Len(sched_txs) = 3
    /\ \E key \in AccountKeys :
           /\ \A i \in 1..Len(sched_txs) : key \in TouchedAccounts(sched_txs[i])
           /\ \E i \in 1..Len(sched_txs) : sched_txs[i].writes = {}
           /\ \E i \in 1..Len(sched_txs) : key \in sched_txs[i].writes
    /\ Len(sched_groups) = 3

\* The transactions placed in the groups before the g-th
PlacedBefore(g) ==
    { sched_groups[p[1]][p[2]].hash : p \in { q \in GroupPlaces(sched_groups) : q[1] < g } }

\* C28 - Scheduler termination: the grouping loop ends with nothing left over
\* (neither the defensive break nor the singleton fallback is taken), after at
\* most as many passes as the batch has transactions, and every pass emits a
\* non-empty group that starts with the first transaction still remaining.
C28_SchedulerTermination ==
    sched_pc = "done" =>
        /\ sched_leftover = <<>>
        /\ Len(sched_groups) <= Len(sched_txs)
        /\ \A g \in 1..Len(sched_groups) :
               /\ sched_groups[g] # <<>>
               /\ \A i \in 1..Len(sched_txs) :
                      i < sched_groups[g][1].hash => i \in PlacedBefore(g)
               /\ sched_groups[g][1].hash \notin PlacedBefore(g)

\* C28 witness: the loop made three passes over a batch of three transactions
\* that read and write
C28_Witness ==
    /\ sched_pc = "done"
    /\ Len(sched_txs) = 3
    /\ Len(sched_groups) = 3
    /\ \A i \in 1..Len(sched_txs) :
           sched_txs[i].reads # {} /\ sched_txs[i].writes # {}

\* C29 - Maximal groups: a transaction placed in a later group conflicts, by
\* the write-write / read-write / write-read rule, with a transaction that
\* was placed before it in each earlier group; transactions that only read a
\* common key are not separated.
C29_MaximalGroups ==
    sched_pc = "done" =>
        \A i \in 1..Len(sched_txs) :
            \A g \in 1..(GroupOf(i) - 1) :
                \E k \in 1..Len(sched_groups[g]) :
                    /\ sched_groups[g][k].hash < i
                    /\ RuleConflict(sched_groups[g][k], sched_txs[i])

\* A transaction placed in a later group touches an account that a
\* transaction placed before it in each earlier group touches
DeferredOnlyOnOverlap ==
    sched_pc = "done" =>
        \A i \in 1..Len(sched_txs) :
            \A g \in 1..(GroupOf(i) - 1) :
                \E k \in 1..Len(sched_groups[g]) :
                    /\ sched_groups[g][k].hash < i
                    /\ TouchedAccounts(sched_groups[g][k])
                           \cap TouchedAccounts(sched_txs[i]) # {}

(***************************************************************************)
(* Properties of the block's hash (SpecBlock).                             *)
(***************************************************************************)
\* C30 - Block hash consistency: after Block::new and after every
\* add_transaction, accepted or refused, verify() is true: the stored hash is
\* the digest of number, timestamp, parent hash and transaction count; and an
\* add_transaction that returns false leaves the block as it was.
C30_HashConsistent ==
    /\ [](/\ BlockVerify(block)
          /\ block.hash = Sha256Hex(ToString(block.number) \o ToString(block.timestamp)
                                      \o block.parent_hash
                                      \o ToString(Len(block.transactions))))
    /\ [][\A tx \in BlockTxs :
              (BlockAddTransaction(tx) /\ block_ret' = RetValue(0)) =>
                  /\ block'.transactions = block.transactions
                  /\ block'.gas_used = block.gas_used
                  /\ block'.hash = block.hash]_vars

\* C30 witness: a block holding two transactions has refused a third
C30_Witness ==
    /\ Len(block.transactions) = 2
    /\ block_ret = RetValue(0)
    /\ block.gas_used > 0

(***************************************************************************)
(* Properties of a production cycle (SpecProducer).                        *)
(***************************************************************************)
\* The i-th transaction of the last cycle's batch is in the block it produced
InProducedBlock(i) ==
    \E k \in 1..Len(chain[Len(chain)].transactions) :
        chain[Len(chain)].transactions[k].hash = cycle.transactions[i].hash

\* C21 - Budget cut-off: in a production cycle, once a transaction with a
\* status-true receipt was refused by the block, no later transaction of the
\* batch is in that block.
C21_BudgetCutOff ==
    chain # <<>> =>
        \A i, j \in 1..Len(cycle.transactions) :
            (i < j /\ cycle.receipts[i].status /\ ~InProducedBlock(i)) =>
                ~InProducedBlock(j)

\* What C22 says of a tick that finds tx alone in the pool
EndToEndEffect(tx) ==
    /\ accounts'[tx.from].balance = accounts[tx.from].balance - tx.value
    /\ accounts'[tx.to].balance =
           (IF tx.to \in DOMAIN accounts THEN accounts[tx.to].balance ELSE 0) + tx.value
    /\ pending' = <<>>
    /\ Len(chain') = Len(chain) + 1
    /\ chain'[Len(chain')].transactions = <<tx>>
    /\ Len(cycle'.receipts) = 1
    /\ cycle'.receipts[1].tx_hash = tx.hash
    /\ cycle'.receipts[1].status = TRUE

\* The pool holds one transaction, which moves a positive value that its
\* sender's balance covers to a different account
OneCoveredTransfer ==
    /\ Len(pending) = 1
    /\ pending[1].value > 0
    /\ pending[1].from \in DOMAIN accounts
    /\ accounts[pending[1].from].balance >= pending[1].value
    /\ pending[1].from # pending[1].to

\* C22 - End-to-end transfer: when the pool holds one transaction moving
\* v > 0 from an account with balance b >= v to a different account, one
\* production cycle leaves the sender with b - v, the recipient with v more,
\* a status-true receipt, the pool empty and a produced block holding the
\* transaction.
C22_EndToEnd ==
    [][\A now \in Clock :
           (ProduceBlock(now) /\ OneCoveredTransfer) => EndToEndEffect(pending[1])]_vars

\* The same, for a transaction whose gas_limit is within the block's
EndToEndWithinBudget ==
    [][\A now \in Clock :
           (ProduceBlock(now) /\ OneCoveredTransfer
                /\ pending[1].gas_limit <= BlockGasLimit) =>
               EndToEndEffect(pending[1])]_vars

(***************************************************************************)
(* Properties of execute_parallel and its worker threads (SpecEngine).     *)
(***************************************************************************)
\* The worker has begun the first transaction of its chunk
Started(w) == workers[w].pos > workers[w].lo \/ workers[w].pc # "lock"

\* The worker has gone through its whole chunk
Finished(w) == workers[w].pc = "done"

\* The threads spawned for group g
WorkersOf(g) == { w \in 1..Len(workers) : workers[w].group = g }

\* How often the transaction occurs in executed_txs
TimesRecorded(tx) == Cardinality({ k \in 1..Len(executed_txs) : executed_txs[k] = tx })

\* The chunks of group g, joined in spawn order, are the group
ChunksCover(g) ==
    LET ws == WorkersOf(g)
    IN /\ ws # {}
       /\ \E first \in ws : workers[first].lo = 1
       /\ \E last \in ws : workers[last].hi = Len(sched_groups[g])
       /\ \A w \in ws : \/ workers[w].hi = Len(sched_groups[g])
                        \/ \E next \in ws : workers[next].lo = workers[w].hi + 1
       /\ \A w \in ws : workers[w].lo <= workers[w].hi
       /\ \A v, w \in ws : v # w => (workers[v].hi < workers[w].lo
                                      \/ workers[w].hi < workers[v].lo)

\* C24: no transaction of group k+1 starts executing before every worker
\* thread of group k has finished all of its transactions: whenever a
\* worker of a group has started, each earlier group has all its chunks
\* spawned, all its workers finished and all its transactions recorded, in
\* every interleaving of the threads.
C24_GroupBarrier ==
    \A w \in 1..Len(workers) :
        Started(w) =>
            \A k \in 1..(workers[w].group - 1) :
                /\ ChunksCover(k)
                /\ \A v \in WorkersOf(k) : Finished(v)
                /\ \A i \in 1..Len(sched_groups[k]) :
                       TimesRecorded(sched_groups[k][i]) = 1

\* A worker of the second group is running after a first group that had two
\* worker threads
C24_Witness ==
    /\ Cardinality(WorkersOf(1)) >= 2
    /\ \E w \in WorkersOf(2) : Started(w) /\ ~Finished(w)

\* What C25 says of the groups execute_group has returned from, and of the
\* whole call once it has returned
ExactlyOnce ==
    /\ \A g \in 1..group_id :
           /\ Cardinality(WorkersOf(g)) <= threads
           /\ engine_pc \in {"join", "loop", "done"} => ChunksCover(g)
    /\ \A k \in 1..Len(sched_txs) : TimesRecorded(sched_txs[k]) <= 1
    /\ (engine_pc = "loop" /\ group_id > 0) =>
           /\ executed_count = Len(sched_groups[group_id])
           /\ \A g \in 1..group_id : \A i \in 1..Len(sched_groups[g]) :
                  TimesRecorded(sched_groups[g][i]) = 1
    /\ engine_pc = "done" =>
           /\ engine_ret = RetValue([total_txs |-> Len(sched_txs),
                                     conflicts_detected |-> conflicts_detected])
           /\ \A k \in 1..Len(sched_txs) : TimesRecorded(sched_txs[k]) = 1

\* C25: for a non-empty group and threads >= 1, execute_group starts at most
\* `threads` workers, each on one contiguous chunk of the group; each
\* transaction of the group is executed and recorded in executed_txs exactly
\* once, the returned count is the group size, and execute_parallel reports
\* total_txs equal to the batch size.
C25_ExactlyOnce ==
    threads >= 1 => (engine_pc # "panicked" /\ ExactlyOnce)

\* The same, for thread counts whose sum with the group size fits a usize
ExactlyOnceWhereChunkSizeFits ==
    (threads >= 1 /\ threads + Len(sched_txs) <= UsizeMax) =>
        (engine_pc # "panicked" /\ ExactlyOnce)

\* A call over a group of three transactions and two threads has returned
ExactlyOnceReached ==
    /\ engine_pc = "done"
    /\ threads = 2
    /\ \E g \in 1..Len(sched_groups) : Len(sched_groups[g]) = 3

(***************************************************************************)
(* Properties of the conflict counter (SpecDetector).                      *)
(***************************************************************************)
\* The unordered pairs of distinct transactions of the batch that conflict
ConflictingPairs(txs) ==
    { pair \in SUBSET (1..Len(txs)) :
        /\ Cardinality(pair) = 2
        /\ \A i, j \in pair : i # j => RuleConflict(txs[i], txs[j]) }

\* C31 - Conflict counter, as stated: analysing a batch increases
\* conflicts_detected by exactly the number of unordered pairs of distinct
\* transactions of the batch that conflict, and the counter never decreases.
C31_ConflictCounter ==
    [][\A txs \in DetectorBatches :
           AnalyzeDependencies(txs) =>
               /\ conflicts_detected' =
                      conflicts_detected + Cardinality(ConflictingPairs(txs))
               /\ conflicts_detected' >= conflicts_detected]_vars

\* C31 as the code has it: analysing a batch increases conflicts_detected by
\* the number of ordered pairs of distinct transactions that conflict, which
\* is twice the number of unordered conflicting pairs, and the counter keeps
\* accumulating across batches without decreasing.
C31_ConflictCounterOrderedPairs ==
    [][\A txs \in DetectorBatches :
           AnalyzeDependencies(txs) =>
               /\ conflicts_detected' =
                      conflicts_detected + 2 * Cardinality(ConflictingPairs(txs))
               /\ conflicts_detected' >= conflicts_detected]_vars

\* C31 witness: a second batch with a conflicting pair was analysed on top of
\* the count of an earlier batch
C31_Witness ==
    /\ Cardinality(ConflictingPairs(sched_txs)) >= 1
    /\ conflicts_detected > 2 * Cardinality(ConflictingPairs(sched_txs))

(***************************************************************************)
(* Properties of Transaction::new (SpecIdentity).                          *)
(***************************************************************************)
\* C32 - Transaction identity: two transactions built by Transaction::new
\* have the same hash only if they have the same sender, recipient, value and
\* nonce (distinct field tuples never give the same concatenated hash input).
C32_TransactionIdentity ==
    \A i, j \in 1..Len(built) :
        built[i].hash = built[j].hash =>
            /\ built[i].from = built[j].from
            /\ built[i].to = built[j].to
            /\ built[i].value = built[j].value
            /\ built[i].nonce = built[j].nonce

\* Equal field tuples give equal hashes
EqualFieldsEqualHash ==
    \A i, j \in 1..Len(built) :
        ( /\ built[i].from = built[j].from
          /\ built[i].to = built[j].to
          /\ built[i].value = built[j].value
          /\ built[i].nonce = built[j].nonce ) => built[i].hash = built[j].hash

(***************************************************************************)
(* Further properties of the pool (SpecPool).                              *)
(***************************************************************************)
\* The hashes of the transactions in the pending queue
PendingHashes == { pending[i].hash : i \in 1..Len(pending) }

\* C33 - Pool index stays in sync with the queue: after any sequence of
\* add_transaction, get_transactions and remove_transaction calls, the set of
\* hashes in by_hash is exactly the set of hashes of the pending transactions.
C33_IndexInSync == DOMAIN by_hash = PendingHashes

(***************************************************************************)
(* Properties of the pool under concurrent callers (SpecPoolConc).         *)
(***************************************************************************)
\* C34 - No duplicate pending transactions: in every state reachable through
\* any interleaving of concurrent add_transaction, get_transactions and
\* remove_transaction calls, no two transactions in the pending queue have
\* the same hash.
C34_NoDuplicatePending ==
    \A i, j \in 1..Len(pending) : i # j => pending[i].hash # pending[j].hash

\* The callers that have returned from add_transaction(tx) with Ok
Succeeded(tx) ==
    { t \in Callers : /\ caller_pc[t] = "done"
                      /\ caller_call[t].op = "add_transaction"
                      /\ caller_call[t].tx = tx
                      /\ caller_ret[t] = RetOk }

\* No caller has called remove_transaction
NoRemoveCalled == \A t \in Callers : caller_call[t].op # "remove_transaction"

\* Without remove_transaction calls the queue holds no duplicate, and of the
\* concurrent submissions of one hash at most one succeeds
NoDuplicateWithoutRemove ==
    NoRemoveCalled =>
        /\ C34_NoDuplicatePending
        /\ \A tx \in ConcPoolTxs : Cardinality(Succeeded(tx)) <= 1

\* Two concurrent submissions of one transaction have both returned, with no
\* remove_transaction call around
TwoSubmissionsReturned ==
    /\ NoRemoveCalled
    /\ \E t, u \in Callers :
           /\ t # u
           /\ caller_pc[t] = "done" /\ caller_pc[u] = "done"
           /\ caller_call[t].op = "add_transaction"
           /\ caller_call[u] = caller_call[t]

\* A caller holds the guard
Holds(t, lock) == \E k \in 1..Len(caller_held[t]) : caller_held[t][k] = lock

\* C38 - Pool deadlock-freedom: the started add_transaction,
\* get_transactions, size and remove_transaction calls of a set of concurrent
\* calls on one Mempool all complete (from some point on no call is in
\* progress), and the two locks are never acquired in conflicting orders: no
\* caller waits for pending while it holds by_hash.
C38_PoolDeadlockFree ==
    /\ <>[](\A t \in Callers : caller_pc[t] \in {"idle", "done"})
    /\ [](\A t \in Callers :
              Holds(t, "by_hash") =>
                  (caller_pc[t] = "locked" /\
                   (Holds(t, "pending") => caller_held[t] = <<"pending", "by_hash">>)))

\* C38 witness: a caller of add_transaction holds pending and waits for
\* by_hash, which a caller of remove_transaction holds, while a third caller
\* waits for pending
C38_Witness ==
    \E t, u, v \in Callers :
        /\ caller_call[t].op = "add_transaction"
        /\ caller_pc[t] = "locking" /\ caller_held[t] = <<"pending">>
        /\ caller_call[u].op = "remove_transaction" /\ lock_writer["by_hash"] = u
        /\ caller_call[v].op \in {"size", "get_transactions"}
        /\ caller_pc[v] = "locking"

(***************************************************************************)
(* The ledger against the produced blocks (SpecProducer).                  *)
(***************************************************************************)
\* The ledger after the transfers of txs[i..] were applied in order
RECURSIVE ApplyTransfers(_, _, _)
ApplyTransfers(accts, txs, i) ==
    IF i > Len(txs) THEN accts
    ELSE ApplyTransfers(transfer(accts, txs[i].from, txs[i].to, txs[i].value,
                                 FALSE).accounts, txs, i + 1)

\* The ledger after the transactions of blocks[k..] were applied in order
RECURSIVE ApplyBlocks(_, _, _)
ApplyBlocks(accts, blocks, k) ==
    IF k > Len(blocks) THEN accts
    ELSE ApplyBlocks(ApplyTransfers(accts, blocks[k].transactions, 1), blocks, k + 1)

\* C35 - Ledger matches blocks: after every production cycle, every
\* transaction whose transfer was applied to the ledger during that cycle is
\* in the block the cycle produced, and the ledger equals the genesis state
\* with exactly the transactions of the produced blocks applied in order.
C35_LedgerMatchesBlocks ==
    /\ chain # <<>> =>
           \A i \in 1..Len(cycle.transactions) :
               cycle.receipts[i].status => InProducedBlock(i)
    /\ accounts = ApplyBlocks(ProducerGenesis, chain, 1)

\* The same, while every pulled transaction carries the gas_limit of
\* Transaction::new and no cycle has panicked
LedgerMatchesBlocksAtDefaultGas ==
    (producer_alive /\ \A k \in 1..Len(taken) : taken[k].gas_limit = 21000) =>
        C35_LedgerMatchesBlocks

\* Two blocks with transfers were produced from transactions of default gas
LedgerMatchesBlocksReached ==
    /\ producer_alive
    /\ \A k \in 1..Len(taken) : taken[k].gas_limit = 21000
    /\ Len(chain) >= 2
    /\ \A b \in 1..Len(chain) : chain[b].transactions # <<>>

(***************************************************************************)
(* Liveness of inclusion (SpecProducerLive).                               *)
(***************************************************************************)
\* How often the transaction was pulled into a batch, and how often executed
TimesPulled(tx) == Cardinality({ k \in 1..Len(taken) : taken[k] = tx })
TimesExecuted(tx) == Cardinality({ k \in 1..Len(executed_batches) : executed_batches[k] = tx })

\* Every accepted transaction was pulled into one batch and executed once
AllAcceptedExecutedOnce ==
    \A k \in 1..Len(accepted) :
        TimesPulled(accepted[k]) = 1 /\ TimesExecuted(accepted[k]) = 1

\* No transaction was pulled or executed twice
NeverTwice ==
    \A k \in 1..Len(accepted) :
        TimesPulled(accepted[k]) <= 1 /\ TimesExecuted(accepted[k]) <= 1

\* C36 - Liveness of inclusion: with a producer that keeps ticking and
\* submitters running concurrently, every transaction accepted by
\* add_transaction is eventually pulled into a batch and executed exactly
\* once; it is never lost between the pool and the executor and never pulled
\* twice.
C36_InclusionLiveness == []NeverTwice /\ <>[]AllAcceptedExecutedOnce

\* The same for a build without overflow checks
InclusionLivenessWithoutOverflowChecks ==
    []NeverTwice /\ <>[](overflow_checks \/ AllAcceptedExecutedOnce)

\* Without overflow checks, three accepted transactions were executed over
\* two cycles
InclusionReached ==
    /\ ~overflow_checks
    /\ Len(accepted) = 3
    /\ AllAcceptedExecutedOnce
    /\ Len(chain) >= 2

(***************************************************************************)
(* Nonces of the ledger (SpecLedger).                                      *)
(***************************************************************************)
\* The nonce of an address, 0 while it has no account
NonceOf(accts, address) == IF address \in DOMAIN accts THEN accts[address].nonce ELSE 0

\* The step is a transfer sent from the address that returned Ok
SentOk(address) ==
    \E to \in Addresses, amount \in Amounts :
        Transfer(address, to, amount) /\ ledger_ret' = RetOk

\* The nonce of the address moves with the step as a count of the successful
\* transfers sent from it does
NonceCountsStep(address) ==
    NonceOf(accounts', address) =
        NonceOf(accounts, address) + (IF SentOk(address) THEN 1 ELSE 0)

\* C37 - Nonce counts sent transfers: over any sequence of create_account and
\* transfer calls each account's nonce equals the number of successful
\* transfers sent from its address so far (it starts at 0, grows by one with
\* each of them and changes with no other call), and so never decreases.
C37_NonceCountsSent ==
    [][\A address \in Addresses : NonceCountsStep(address)]_vars

\* The same over the steps that neither call create_account for an address
\* that has an account nor panic
NonceCountsWhereNoAccountReplaced ==
    [][\A address \in Addresses :
           ( /\ ledger_ret' # RetPanic
             /\ \A replaced \in DOMAIN accounts, balance \in GenesisBalances :
                    ~CreateAccount(replaced, balance) )
           => NonceCountsStep(address)]_vars

\* An account has sent two successful transfers
NonceCountsReached ==
    \E address \in DOMAIN accounts : accounts[address].nonce = 2

(***************************************************************************)
(* Properties of TransactionExecutor::execute_parallel                     *)
(* (SpecExecutorGrouped).                                                  *)
(***************************************************************************)
\* The groups, one after another, as one sequence
RECURSIVE Flatten(_)
Flatten(groups) ==
    IF groups = <<>> THEN <<>> ELSE Head(groups) \o Flatten(Tail(groups))

\* No two transactions of the group have the same sender
DistinctSenders(group) ==
    \A i, j \in 1..Len(group) : i # j => group[i].from # group[j].from

\* C39: for every batch and initial ledger, execute_parallel returns the same
\* receipts in the same order and leaves the same ledger as execute_batch
\* (and panics where execute_batch panics), and none of the sender groups it
\* forms contains two transactions from the same sender; the groups are
\* non-empty and, one after another, are the batch.
C39_GroupedRefinesSequential ==
    exec_ret.call = "execute_parallel" =>
        LET sequential == execute_batch(exec_ret.before, exec_ret.transactions,
                                        exec_ret.block_number, overflow_checks)
            groups == sender_groups(exec_ret.transactions)
        IN /\ exec_ret.receipts = sequential.receipts
           /\ exec_ret.panicked = sequential.panicked
           /\ accounts = sequential.accounts
           /\ \A g \in 1..Len(groups) : groups[g] # <<>> /\ DistinctSenders(groups[g])
           /\ Flatten(groups) = exec_ret.transactions

\* A batch in which a sender repeats, cut into two groups, has been executed
\* and changed the ledger
C39_Witness ==
    /\ exec_ret.call = "execute_parallel"
    /\ ~exec_ret.panicked
    /\ Len(exec_ret.transactions) = 3
    /\ Len(sender_groups(exec_ret.transactions)) = 2
    /\ Len(sender_groups(exec_ret.transactions)[1]) = 2
    /\ \E k \in 1..Len(exec_ret.receipts) : exec_ret.receipts[k].status
    /\ accounts # exec_ret.before

(***************************************************************************)
(* Properties of account_locks under execute_single (SpecEngine).          *)
(***************************************************************************)
\* The worker's transaction is between the insert and the remove of
\* execute_single
InFlight(w) == workers[w].pc = "unlock"

\* The keys the worker's transaction has marked
Marks(w) == TouchedAccounts(WorkerTx(w))

\* The workers whose transaction is in flight
InFlightWorkers == { w \in 1..Len(workers) : InFlight(w) }

\* C40: while the groups of group_independent_txs are executed by
\* execute_group, no account key is marked in account_locks by two in-flight
\* transactions at the same time; the keys present are exactly those of the
\* transactions in flight, so no worker has removed or overwritten a mark a
\* running transaction still holds; and when execute_parallel has returned
\* account_locks is empty.
C40_AccountLockDiscipline ==
    /\ \A v, w \in InFlightWorkers : v # w => Marks(v) \cap Marks(w) = {}
    /\ account_locks = UNION { Marks(w) : w \in InFlightWorkers }
    /\ engine_pc = "done" => account_locks = {}

\* Two transactions are in flight at once, one of them holding two keys
C40_Witness ==
    /\ Cardinality(InFlightWorkers) = 2
    /\ \E w \in InFlightWorkers : Cardinality(Marks(w)) = 2
    /\ Cardinality(account_locks) = 3

=============================================================================
